---------------------------- MODULE Spec2Model ----------------------------
(***************************************************************************)
(* Model of the macro agent's real-time pipeline:                          *)
(*   - SequenceExecutor (dist/sequenceExecutor.js) with the                *)
(*     TrafficController (unnamed/part_005) and compileProfile             *)
(*     (src/profileCompiler.ts);                                           *)
(*   - KeyGestureStateMachine / GestureDetector (src/gestureDetector.ts);  *)
(*   - SequenceExecutor.validateSequence as a pure function.               *)
(*                                                                         *)
(* A key string "MOD+MOD+BASE" is modelled as the sequence of its parts    *)
(* split on "+", e.g. "SHIFT+R" is <<"SHIFT", "R">>.  A step name is       *)
(* modelled as the set of the patterns the executor searches for that      *)
(* occur in it.  JavaScript runs one flow at a time until it reaches an    *)
(* await: cur names the run that is executing synchronously (0 when the    *)
(* event loop is idle and any timer, continuation or caller may run).      *)
(***************************************************************************)
EXTENDS Integers, Sequences, FiniteSets, TLC

\* ------------------------------------------------------------------ bounds
MaxRuns == 2
MaxInvalidCalls == 1

\* ------------------------------------------------------- program constants
MIN_DELAY == 25
MIN_VARIANCE == 4
MAX_UNIQUE_KEYS == 4
MAX_STEPS_PER_KEY == 6
MAX_ECHO_HITS == 6

\* ------------------------------------------------------------- key strings
\* Upper/lower case forms of the string parts that occur in the model.
CasePairs ==
  { <<"SHIFT", "shift">>, <<"ALT", "alt">>, <<"CTRL", "ctrl">>,
    <<"CONTROL", "control">>, <<"END", "end">>,
    <<"R", "r">>, <<"Q", "q">>, <<"E", "e">>, <<"F", "f">>, <<"G", "g">>,
    <<"J", "j">> }

ToUpper(p) ==
  IF \E c \in CasePairs : c[2] = p
    THEN (CHOOSE c \in CasePairs : c[2] = p)[1]
    ELSE p

ToLower(p) ==
  IF \E c \in CasePairs : c[1] = p
    THEN (CHOOSE c \in CasePairs : c[1] = p)[2]
    ELSE p

\* String.prototype.toLowerCase on a whole key string
KeyToLower(key) == [n \in DOMAIN key |-> ToLower(key[n])]

\* utils.extractRawKey / profileCompiler.rawKeyFrom: last part, upper-cased
extractRawKey(key) == ToUpper(key[Len(key)])

\* SequenceExecutor.parseKey: lower-cased base and the mapped modifiers
parseKey(key) ==
  [ key |-> ToLower(ToUpper(key[Len(key)])),
    modifiers |->
      [ n \in 1..(Len(key) - 1) |->
          LET m == ToUpper(key[n])
          IN  IF m = "SHIFT" THEN "shift"
              ELSE IF m = "ALT" THEN "alt"
              ELSE IF m \in {"CTRL", "CONTROL"} THEN "control"
              ELSE ToLower(m) ] ]

SeqRange(s) == { s[n] : n \in DOMAIN s }

\* ------------------------------------------------------------------- steps
NoKey == << >>
NoRange == << >>

\* A SequenceStep with every optional field absent: bufferTier "" and
\* echoHits 0 stand for undefined (both are falsy in the source).
Step(key) ==
  [ key |-> key, name |-> {}, bufferTier |-> "", minDelay |-> 25,
    maxDelay |-> 30, keyDownDuration |-> NoRange, echoHits |-> 0,
    dualKey |-> NoKey, dualKeyOffsetMs |-> -1, dualKeyDownDuration |-> NoRange,
    holdThroughNext |-> FALSE ]

TierStep(key, tier) == [Step(key) EXCEPT !.bufferTier = tier]

\* SequenceExecutor.validateStep: "ok" stands for null, anything else for
\* the error message of that kind.
validateStep(step) ==
  IF step.bufferTier /= "" /\ step.bufferTier \notin {"low", "medium", "high"}
    THEN "bufferTier"
  ELSE IF step.bufferTier = "" /\ step.minDelay < MIN_DELAY
    THEN "minDelay"
  ELSE IF step.bufferTier = "" /\ step.maxDelay - step.minDelay < MIN_VARIANCE
    THEN "variance"
  ELSE IF step.keyDownDuration /= NoRange
          /\ (step.keyDownDuration[1] <= 0
              \/ step.keyDownDuration[2] < step.keyDownDuration[1])
    THEN "keyDownDuration"
  ELSE "ok"

\* step.echoHits || 1
EchoHits(step) == IF step.echoHits = 0 THEN 1 ELSE step.echoHits

\* first loop of validateSequence: per-step check, then the echoHits range
StepError(step) ==
  IF validateStep(step) /= "ok" THEN validateStep(step)
  ELSE IF EchoHits(step) < 1 \/ EchoHits(step) > MAX_ECHO_HITS THEN "echoHits"
  ELSE "ok"

\* a variant of the key that counts steps by base, modifiers discarded
BaseKey(step) == << ToLower(extractRawKey(step.key)) >>

\* the Map keyStepCount built by the second loop of validateSequence
NormalizedKey(step) == KeyToLower(step.key)

keyStepCount(sequence) ==
  [ k \in { NormalizedKey(sequence[n]) : n \in DOMAIN sequence } |->
      Cardinality({ n \in DOMAIN sequence : NormalizedKey(sequence[n]) = k }) ]

validateSequence(sequence) ==
  LET bad == { n \in DOMAIN sequence : StepError(sequence[n]) /= "ok" }
      cnt == keyStepCount(sequence)
  IN  IF bad /= {}
        THEN StepError(sequence[CHOOSE n \in bad : \A m \in bad : n <= m])
      ELSE IF Cardinality(DOMAIN cnt) > MAX_UNIQUE_KEYS THEN "uniqueKeys"
      ELSE IF \E k \in DOMAIN cnt : cnt[k] > MAX_STEPS_PER_KEY THEN "stepsPerKey"
      ELSE "ok"

\* ---------------------------------------------------------------- profile
K_R == <<"R">>
K_SR == <<"SHIFT", "R">>
K_Q == <<"Q">>
K_J == <<"J">>
K_END == <<"END">>

\* The macro profile the executor specifications run: binding name -> sequence.
\*   A contends for R with a modified press, repeated by an echo hit;
\*   B presses R bare and then a safe key;  C presses a safe key with R as
\*   its dual key;  D is a Discord mic-toggle step;  X fails validation.
Profile ==
  [ A |-> << [TierStep(K_SR, "low") EXCEPT !.echoHits = 2] >>,
    B |-> << [Step(K_R) EXCEPT !.holdThroughNext = TRUE], TierStep(K_Q, "low") >>,
    C |-> << [TierStep(K_J, "low") EXCEPT !.dualKey = K_R,
                                          !.keyDownDuration = <<15, 16>>] >>,
    D |-> << [TierStep(K_END, "low") EXCEPT !.name = {"Discord", "Mic Toggle"}] >>,
    X |-> << [Step(K_Q) EXCEPT !.minDelay = 10] >> ]

Bindings == DOMAIN Profile

ProfileSteps == UNION { SeqRange(Profile[b]) : b \in Bindings }

HasMod(key, m) == \E n \in 1..(Len(key) - 1) : ToUpper(key[n]) = m

\* a variant of the compiler that takes every key used bare for a safe key
compileLoose(steps) ==
  LET rawSet   == { extractRawKey(s.key) : s \in { t \in steps :
                      ~HasMod(t.key, "SHIFT") /\ ~HasMod(t.key, "ALT") } }
      modSet   == { extractRawKey(s.key) : s \in { t \in steps :
                      HasMod(t.key, "SHIFT") \/ HasMod(t.key, "ALT") } }
  IN  [ conundrumKeys |-> rawSet \cap modSet, safeKeys |-> rawSet ]

\* profileCompiler.compileProfile
compileProfile(steps) ==
  LET rawSet   == { extractRawKey(s.key) : s \in { t \in steps :
                      ~HasMod(t.key, "SHIFT") /\ ~HasMod(t.key, "ALT") } }
      shiftSet == { extractRawKey(s.key) : s \in { t \in steps : HasMod(t.key, "SHIFT") } }
      altSet   == { extractRawKey(s.key) : s \in { t \in steps : HasMod(t.key, "ALT") } }
      allKeys  == rawSet \cup shiftSet \cup altSet
      forms(k) == (IF k \in rawSet THEN 1 ELSE 0) + (IF k \in shiftSet THEN 1 ELSE 0)
                  + (IF k \in altSet THEN 1 ELSE 0)
  IN  [ conundrumKeys |-> { k \in allKeys : forms(k) > 1 },
        safeKeys |-> { k \in allKeys : forms(k) = 1 /\ k \in rawSet } ]

compiledProfile == compileProfile(ProfileSteps)

\* profileCompiler.isConundrumKey
isConundrumKey(key, compiled) == extractRawKey(key) \in compiled.conundrumKeys

\* ---------------------------------------------------------------- state
VARIABLES
  isExecuting,       \* SequenceExecutor.isExecuting: binding name -> boolean
  activeExecutions,  \* SequenceExecutor.activeExecutions: set of binding names
  crossingKey,       \* TrafficController.crossingKey ("" is null)
  queue,             \* TrafficController.queue: raw keys in arrival order
  run,               \* the invocations of executeInternal, by slot
  cur,               \* the run executing synchronously, 0 when none is
  evCount,           \* execution events delivered to the callback, by binding and type
  sinkEv,            \* the OS sink calls made by the last step
  lastOp,            \* the public call made by the last step, if any
  invalidCalls       \* number of calls that failed validation so far

execVars == << isExecuting, activeExecutions, crossingKey, queue, run, cur,
               evCount, sinkEv, lastOp, invalidCalls >>

VARIABLES
  now,               \* performance.now(), in ms
  machines,          \* GestureDetector.machines: input key -> KeyGestureStateMachine
  phys,              \* the physical key behind each input key, and its current press
  nPress,            \* number of physical presses so far
  gestEv,            \* the gesture events delivered to the callback by the last step
  lastEv,            \* the input event handled by the last step, if any
  counted,           \* press id -> number of emitted gestures that counted it
  marks,             \* input key -> press ids by what happened to them (cancelled, jailed)
  lastGesture,       \* input key -> the last gesture resolved on it
  tapRun,            \* input key -> the current run of presses and its gestures
  microtasks,        \* the emissions deferred by queueMicrotask, oldest first
  isStopped,         \* GestureDetector.isStopped
  listeners,         \* GestureDetector.listeners
  exercised,         \* the input keys the environment presses
  eventQueue,        \* GestureDetector.eventQueue
  processingQueue    \* GestureDetector.processingQueue

queueVars == << eventQueue, processingQueue >>

gestVars == << now, machines, phys, nPress, gestEv, lastEv, counted, marks,
               lastGesture, tapRun, microtasks, isStopped, listeners,
               exercised, queueVars >>

VARIABLES
  valIn,             \* how the sequence under validation was built
  seqIn,             \* the sequence handed to validateSequence
  verdict            \* what validateSequence returned ("none" before the call)

valVars == << valIn, seqIn, verdict >>

VARIABLES
  supremacyMacros,   \* TrafficController.supremacyMacros
  party,             \* the direct callers of the traffic controller
  waitOrder,         \* the callers waiting for a crossing, in arrival order
  queueBy,           \* the caller that pushed each entry of the queue
  requests           \* the requests the direct callers have made so far

trafVars == << supremacyMacros, party, waitOrder, queueBy, requests >>

VARIABLES
  profileKeys,       \* the step keys of the profile handed to the compilers
  compiledMain,      \* what compileProfile returned
  compiledPatched    \* what compileProfilePatched returned

compVars == << profileKeys, compiledMain, compiledPatched >>

VARIABLES
  macros,            \* MacroAgent.profile.macros, in profile order
  agentStopped,      \* MacroAgent.isStopped
  gestureIn,         \* the gesture event handed to handleGesture
  dispatched         \* the bindings that call handed to executeDetached

agentVars == << macros, agentStopped, gestureIn, dispatched >>

moreVars == << compVars, agentVars >>

\* the executor's own state, without the traffic controller's
execRest == << isExecuting, activeExecutions, run, cur, evCount, sinkEv,
               lastOp, invalidCalls >>

Runs == 1..MaxRuns
EventTypes == {"started", "step", "completed", "error", "cancelled"}
NoOp == [op |-> "none", binding |-> "", inProgress |-> FALSE]
FreeRun ==
  [ binding |-> "", pc |-> "free", i |-> 0, hit |-> 0, primDown |-> FALSE,
    dualDown |-> FALSE, cancelled |-> FALSE, result |-> "none", delay |-> 0 ]

InProgress(r) == run[r].pc \notin {"free", "done"}
RunsOf(b) == { r \in Runs : InProgress(r) /\ run[r].binding = b }
CurStep(r) == Profile[run[r].binding][run[r].i]
Emit(ev, b, type) == [ev EXCEPT ![b][type] = @ + 1]

\* outcomes of robot.keyToggle(.., "down") with the keyTap fallback of pressKey:
\* the toggle works; the toggle throws and the tap works; both throw
SinkOutcomes == {"ok", "tap", "fail"}

\* ------------------------------------------------------ traffic controller
\* requestCrossing called without a macro name
NoMacro == ""

\* the supremacy test of requestCrossing(key, macroName)
Bypasses(macroName) == macroName /= NoMacro /\ macroName \in supremacyMacros

\* a variant of the wait condition under which every requester waits
alwaysWait(raw, q) == TRUE

\* a variant of the wait condition that looks at the head of the queue only
waitForHead(raw, q) == q = << >> \/ q[1] /= ToUpper(raw)

\* TrafficController.shouldWait, on the queue q
shouldWait(raw, q) ==
  crossingKey /= "" \/ q = << >> \/ q[1] /= ToUpper(raw)

\* the queue after TrafficController.releaseCrossing(key)
releasedQueue(key) ==
  IF queue /= << >> /\ queue[1] = extractRawKey(key) THEN Tail(queue) ELSE queue

\* the holder after TrafficController.releaseCrossing(key)
releasedHolder(key) ==
  IF crossingKey = extractRawKey(key) THEN "" ELSE crossingKey

\* ---------------------------------------------------------------- executor
\* the guard of executeDetached and of executeInternal (per-binding lock)
AlreadyExecuting(b) == isExecuting[b]

\* the cancellation check at the top of the step loop and of the hit loop
StillRunning(b) == isExecuting[b]

\* "needsTraffic" in executeInternal
NeedsTraffic(step) == isConundrumKey(step.key, compiledProfile)

\* what the Discord detection of executeInternal does with a step
DiscordAction(step) ==
  IF parseKey(step.key).key = "end" /\ "Discord" \in step.name
    THEN IF \E v \in {"Volume: Low", "Volume: Medium", "Volume: High"} : v \in step.name
           THEN "volume"
         ELSE IF "Mic Toggle" \in step.name \/ "Deafen" \in step.name
           THEN "hotkey"
         ELSE "none"
    ELSE "none"

\* the timer detection of executeInternal: both regular expressions match
IsTimerStep(step) ==
  /\ parseKey(step.key).key = "end"
  /\ "Timer placeholder" \in step.name
  /\ "N seconds" \in step.name
  /\ "'MSG'" \in step.name

\* loop indices after one echo hit: the next hit, or the first hit of the next step
Advanced(r) ==
  IF run[r].hit + 1 < EchoHits(CurStep(r))
    THEN [run[r] EXCEPT !.hit = @ + 1, !.pc = "hitTop"]
    ELSE [run[r] EXCEPT !.i = @ + 1, !.hit = 0, !.pc = "hitTop"]

IsLastPress(r) ==
  /\ run[r].i = Len(Profile[run[r].binding])
  /\ run[r].hit = EchoHits(CurStep(r)) - 1

\* the finally block of executeInternal
Finally(r, result, ev) ==
  /\ isExecuting' = [isExecuting EXCEPT ![run[r].binding] = FALSE]
  /\ activeExecutions' = activeExecutions \ {run[r].binding}
  /\ run' = [run EXCEPT ![r].pc = "done", ![r].result = result]
  /\ evCount' = ev
  /\ cur' = 0

\* executeInternal after validation: mark the binding, emit started and
\* enter the step loop.  op names the public method that was called.
StartRun(b, op) ==
  /\ \E r \in Runs : run[r].pc = "free"
  /\ LET r == CHOOSE x \in Runs :
                run[x].pc = "free" /\ \A y \in Runs : run[y].pc = "free" => x <= y
     IN  /\ isExecuting' = [isExecuting EXCEPT ![b] = TRUE]
         /\ activeExecutions' = activeExecutions \cup {b}
         /\ evCount' = Emit(evCount, b, "started")
         /\ run' = [run EXCEPT ![r] = [FreeRun EXCEPT !.binding = b,
                                                     !.pc = "hitTop", !.i = 1]]
         /\ cur' = r
  /\ lastOp' = [op |-> op, binding |-> b, inProgress |-> RunsOf(b) /= {}]
  /\ sinkEv' = << >>
  /\ UNCHANGED << invalidCalls, crossingKey, queue >>

\* a variant of executeInternal that marks the binding as executing before
\* it validates the sequence
ExecuteInternalMarkFirst(b, op) ==
  IF AlreadyExecuting(b)
    THEN UNCHANGED execVars
  ELSE IF validateSequence(Profile[b]) /= "ok"
    THEN /\ invalidCalls < MaxInvalidCalls
         /\ invalidCalls' = invalidCalls + 1
         /\ isExecuting' = [isExecuting EXCEPT ![b] = TRUE]
         /\ activeExecutions' = activeExecutions \cup {b}
         /\ evCount' = Emit(evCount, b, "error")
         /\ lastOp' = [op |-> op, binding |-> b, inProgress |-> RunsOf(b) /= {}]
         /\ sinkEv' = << >>
         /\ UNCHANGED << run, cur, crossingKey, queue >>
  ELSE StartRun(b, op)

\* executeInternal from its entry to the first step: the per-binding lock,
\* the validation with its error event, then the run
ExecuteInternal(b, op) ==
  IF AlreadyExecuting(b)
    THEN UNCHANGED execVars
  ELSE IF validateSequence(Profile[b]) /= "ok"
    THEN /\ invalidCalls < MaxInvalidCalls
         /\ invalidCalls' = invalidCalls + 1
         /\ evCount' = Emit(evCount, b, "error")
         /\ lastOp' = [op |-> op, binding |-> b, inProgress |-> RunsOf(b) /= {}]
         /\ sinkEv' = << >>
         /\ UNCHANGED << isExecuting, activeExecutions, run, cur, crossingKey, queue >>
  ELSE StartRun(b, op)

\* SequenceExecutor.executeDetached(binding)
ExecuteDetached(b) ==
  /\ UNCHANGED << gestVars, valVars, trafVars, moreVars >>
  /\ cur = 0
  /\ IF AlreadyExecuting(b)
       THEN UNCHANGED execVars
       ELSE ExecuteInternal(b, "executeDetached")

\* SequenceExecutor.execute(binding)
Execute(b) ==
  /\ UNCHANGED << gestVars, valVars, trafVars, moreVars >>
  /\ cur = 0
  /\ ExecuteInternal(b, "execute")

\* SequenceExecutor.cancel(bindingName)
Cancel(b) ==
  /\ UNCHANGED << gestVars, valVars, trafVars, moreVars >>
  /\ cur = 0
  /\ IF isExecuting[b]
       THEN /\ isExecuting' = [isExecuting EXCEPT ![b] = FALSE]
            /\ evCount' = Emit(evCount, b, "cancelled")
            /\ run' = [r \in Runs |->
                         IF r \in RunsOf(b) THEN [run[r] EXCEPT !.cancelled = TRUE]
                         ELSE run[r]]
            /\ lastOp' = [op |-> "cancel", binding |-> b, inProgress |-> RunsOf(b) /= {}]
            /\ sinkEv' = << >>
            /\ UNCHANGED << activeExecutions, crossingKey, queue, cur, invalidCalls >>
       ELSE UNCHANGED execVars

\* SequenceExecutor.cancelAll() (also what shutdown() does to the executor):
\* cancel(name) for every name in activeExecutions
CancelAll ==
  /\ UNCHANGED << gestVars, valVars, trafVars, moreVars >>
  /\ cur = 0
  /\ LET hit == { b \in activeExecutions : isExecuting[b] }
     IN  IF hit = {} THEN UNCHANGED execVars
         ELSE /\ isExecuting' = [b \in Bindings |-> IF b \in hit THEN FALSE
                                                    ELSE isExecuting[b]]
              /\ evCount' = [b \in Bindings |->
                               IF b \in hit THEN [evCount[b] EXCEPT !["cancelled"] = @ + 1]
                               ELSE evCount[b]]
              /\ run' = [r \in Runs |->
                           IF InProgress(r) /\ run[r].binding \in hit
                             THEN [run[r] EXCEPT !.cancelled = TRUE] ELSE run[r]]
              /\ lastOp' = [op |-> "cancelAll", binding |-> "", inProgress |-> FALSE]
              /\ sinkEv' = << >>
              /\ UNCHANGED << activeExecutions, crossingKey, queue, cur, invalidCalls >>

\* the top of the step loop and of the hit loop, up to the Discord detection
HitTop(r) ==
  /\ UNCHANGED << gestVars, valVars, trafVars, moreVars >>
  /\ cur = r /\ run[r].pc = "hitTop"
  /\ lastOp' = NoOp /\ sinkEv' = << >>
  /\ UNCHANGED << crossingKey, queue, invalidCalls >>
  /\ IF run[r].i > Len(Profile[run[r].binding])
       THEN Finally(r, "completed", Emit(evCount, run[r].binding, "completed"))
     ELSE IF ~StillRunning(run[r].binding)
       THEN Finally(r, "stopped", evCount)
     ELSE /\ IF DiscordAction(CurStep(r)) /= "none"
               THEN run' = [run EXCEPT ![r].pc = "audio"] /\ cur' = 0
               ELSE run' = [run EXCEPT ![r].pc = "traffic"] /\ cur' = r
          /\ UNCHANGED << isExecuting, activeExecutions, evCount >>

\* the audio collaborator returns: step event, then skip the key (volume)
\* or go on to press it (mic toggle, deafen)
AudioDone(r) ==
  /\ UNCHANGED << gestVars, valVars, trafVars, moreVars >>
  /\ cur = 0 /\ run[r].pc = "audio"
  /\ lastOp' = NoOp /\ sinkEv' = << >>
  /\ evCount' = Emit(evCount, run[r].binding, "step")
  /\ run' = [run EXCEPT ![r] = IF DiscordAction(CurStep(r)) = "volume"
                                 THEN Advanced(r)
                                 ELSE [run[r] EXCEPT !.pc = "traffic"]]
  /\ cur' = r
  /\ UNCHANGED << isExecuting, activeExecutions, crossingKey, queue, invalidCalls >>

\* timer detection, then the traffic-control request up to its first await:
\* requestCrossing(step.key), called without a macro name, pushes, and takes
\* the crossing when it need not wait
Traffic(r) ==
  /\ UNCHANGED << gestVars, valVars, trafVars, moreVars >>
  /\ cur = r /\ run[r].pc = "traffic"
  /\ lastOp' = NoOp /\ sinkEv' = << >>
  /\ UNCHANGED << isExecuting, activeExecutions, invalidCalls >>
  /\ IF IsTimerStep(CurStep(r))
       THEN /\ evCount' = Emit(evCount, run[r].binding, "step")
            /\ run' = [run EXCEPT ![r] = Advanced(r)]
            /\ UNCHANGED << crossingKey, queue, cur >>
     ELSE IF NeedsTraffic(CurStep(r)) /\ ~Bypasses(NoMacro)
       THEN LET raw == extractRawKey(CurStep(r).key)
                q == Append(queue, raw)
            IN  /\ queue' = q
                /\ IF shouldWait(raw, q)
                     THEN run' = [run EXCEPT ![r].pc = "waiting"]
                          /\ UNCHANGED crossingKey
                     ELSE run' = [run EXCEPT ![r].pc = "granted"]
                          /\ crossingKey' = raw
                /\ cur' = 0
                /\ UNCHANGED evCount
     ELSE /\ run' = [run EXCEPT ![r].pc = "keydown"]
          /\ UNCHANGED << crossingKey, queue, cur, evCount >>

\* one turn of the wait loop of requestCrossing after its sleep
PollCrossing(r) ==
  /\ UNCHANGED << gestVars, valVars, trafVars, moreVars >>
  /\ cur = 0 /\ run[r].pc = "waiting"
  /\ lastOp' = NoOp /\ sinkEv' = << >>
  /\ IF shouldWait(extractRawKey(CurStep(r).key), queue)
       THEN UNCHANGED << crossingKey, run >>
       ELSE /\ crossingKey' = extractRawKey(CurStep(r).key)
            /\ run' = [run EXCEPT ![r].pc = "granted"]
  /\ UNCHANGED << isExecuting, activeExecutions, queue, cur, evCount, invalidCalls >>

\* PRIMARY KEY DOWN and the step event
KeyDown(r) ==
  /\ UNCHANGED << gestVars, valVars, trafVars, moreVars >>
  /\ \/ cur = 0 /\ run[r].pc = "granted"
     \/ cur = r /\ run[r].pc = "keydown"
  /\ lastOp' = NoOp
  /\ UNCHANGED << crossingKey, queue, invalidCalls >>
  /\ \E o \in SinkOutcomes :
       IF o = "fail"
         THEN /\ sinkEv' = << >>
              /\ Finally(r, "error", Emit(evCount, run[r].binding, "error"))
         ELSE /\ sinkEv' = << [run |-> r, key |-> CurStep(r).key,
                               dir |-> IF o = "ok" THEN "down" ELSE "tap"] >>
              /\ evCount' = Emit(evCount, run[r].binding, "step")
              /\ run' = [run EXCEPT ![r].primDown = (o = "ok"),
                                    ![r].pc = IF CurStep(r).dualKey /= NoKey
                                                THEN "dualOffset" ELSE "hold"]
              /\ cur' = 0
              /\ UNCHANGED << isExecuting, activeExecutions >>

\* SequenceExecutor.bufferRanges
bufferRanges == [ low |-> << 11, 17 >>, medium |-> << 15, 24 >>,
                  high |-> << 980, 1270 >> ]

\* a variant of the draw that can exceed max by one
delayUpTo(min, max) == { min + k : k \in 0..(max - min + 1) }

\* getRandomDelay(min, max): Math.floor(Math.random() * (max - min + 1)) + min,
\* with Math.random() in [0, 1)
getRandomDelay(min, max) == { min + k : k \in 0..((max - min + 1) - 1) }

\* the buffer delays executeInternal may draw after a press of step
bufferDelay(step) ==
  IF step.bufferTier /= ""
    THEN getRandomDelay(bufferRanges[step.bufferTier][1],
                        bufferRanges[step.bufferTier][2])
    ELSE getRandomDelay(step.minDelay, step.maxDelay)

\* release of the crossing and the buffer delay that end an echo hit
AfterPress(r, ups) ==
  /\ sinkEv' = ups
  /\ lastOp' = NoOp
  /\ IF NeedsTraffic(CurStep(r))
       THEN /\ crossingKey' = releasedHolder(CurStep(r).key)
            /\ queue' = releasedQueue(CurStep(r).key)
       ELSE UNCHANGED << crossingKey, queue >>
  /\ IF IsLastPress(r)
       THEN /\ run' = [run EXCEPT ![r] = [Advanced(r) EXCEPT !.primDown = FALSE,
                                                             !.dualDown = FALSE]]
            /\ cur' = r
            /\ UNCHANGED evCount
       ELSE /\ \E delay \in bufferDelay(CurStep(r)) :
                 run' = [run EXCEPT ![r].pc = "buffer", ![r].primDown = FALSE,
                                    ![r].dualDown = FALSE, ![r].delay = delay]
            /\ cur' = 0
            /\ evCount' = Emit(evCount, run[r].binding, "step")
  /\ UNCHANGED << isExecuting, activeExecutions, invalidCalls >>

SinkUp(r, key) == [run |-> r, key |-> key, dir |-> "up"]

\* single key mode: the hold ends, PRIMARY KEY UP
KeyUp(r) ==
  /\ UNCHANGED << gestVars, valVars, trafVars, moreVars >>
  /\ cur = 0 /\ run[r].pc = "hold"
  /\ AfterPress(r, << SinkUp(r, CurStep(r).key) >>)

\* dual key mode: the offset ends, DUAL KEY DOWN
DualDown(r) ==
  /\ UNCHANGED << gestVars, valVars, trafVars, moreVars >>
  /\ cur = 0 /\ run[r].pc = "dualOffset"
  /\ lastOp' = NoOp
  /\ UNCHANGED << crossingKey, queue, invalidCalls >>
  /\ \E o \in SinkOutcomes :
       IF o = "fail"
         THEN /\ sinkEv' = << >>
              /\ Finally(r, "error", Emit(evCount, run[r].binding, "error"))
         ELSE /\ sinkEv' = << [run |-> r, key |-> CurStep(r).dualKey,
                               dir |-> IF o = "ok" THEN "down" ELSE "tap"] >>
              /\ run' = [run EXCEPT ![r].dualDown = (o = "ok"), ![r].pc = "dualHold"]
              /\ UNCHANGED << isExecuting, activeExecutions, evCount, cur >>

Max(a, b) == IF a >= b THEN a ELSE b
Range(rg, dflt) == IF rg = NoRange THEN dflt[1]..dflt[2] ELSE rg[1]..rg[2]

\* dualRemainingMs for the draws keyDownMs and dualKeyDownMs
DualRemaining(step, keyDownMs, dualKeyDownMs) ==
  LET offsetMs == IF step.dualKeyOffsetMs = -1 THEN 6 ELSE step.dualKeyOffsetMs
      primaryRemainingMs == Max(0, keyDownMs - offsetMs)
  IN  Max(0, dualKeyDownMs - (offsetMs + primaryRemainingMs))

\* dual key mode: PRIMARY KEY UP, then the dual key's remaining hold if any
PrimaryUp(r) ==
  /\ UNCHANGED << gestVars, valVars, trafVars, moreVars >>
  /\ cur = 0 /\ run[r].pc = "dualHold"
  /\ LET step == CurStep(r)
         kd == Range(step.keyDownDuration, <<15, 27>>)
         dkd == IF step.dualKeyDownDuration = NoRange THEN kd
                ELSE Range(step.dualKeyDownDuration, <<15, 27>>)
     IN  \E keyDownMs \in kd, dualKeyDownMs \in dkd :
           IF DualRemaining(step, keyDownMs, dualKeyDownMs) > 0
             THEN /\ sinkEv' = << SinkUp(r, step.key) >>
                  /\ lastOp' = NoOp
                  /\ run' = [run EXCEPT ![r].primDown = FALSE, ![r].pc = "dualTail"]
                  /\ UNCHANGED << isExecuting, activeExecutions, crossingKey, queue,
                                  cur, evCount, invalidCalls >>
             ELSE AfterPress(r, << SinkUp(r, step.key), SinkUp(r, step.dualKey) >>)

\* dual key mode: DUAL KEY UP after its remaining hold
DualUp(r) ==
  /\ UNCHANGED << gestVars, valVars, trafVars, moreVars >>
  /\ cur = 0 /\ run[r].pc = "dualTail"
  /\ AfterPress(r, << SinkUp(r, CurStep(r).dualKey) >>)

\* the buffer delay ends
BufferDone(r) ==
  /\ UNCHANGED << gestVars, valVars, trafVars, moreVars >>
  /\ cur = 0 /\ run[r].pc = "buffer"
  /\ lastOp' = NoOp /\ sinkEv' = << >>
  /\ run' = [run EXCEPT ![r] = [Advanced(r) EXCEPT !.delay = 0]]
  /\ cur' = r
  /\ UNCHANGED << isExecuting, activeExecutions, crossingKey, queue, evCount,
                  invalidCalls >>

RunStep(r) ==
  \/ HitTop(r) \/ AudioDone(r) \/ Traffic(r) \/ PollCrossing(r) \/ KeyDown(r)
  \/ KeyUp(r) \/ DualDown(r) \/ PrimaryUp(r) \/ DualUp(r) \/ BufferDone(r)

\* ------------------------------------------------------- gesture detector
\* Time is sampled every TimeStep ms up to MaxTime; at most MaxPresses
\* physical presses are made.
TimeStep == 40
MaxTime == 800
MaxPresses == 6

\* the time span over which the whole detector is explored, in ms
DetectorSpan == 200

\* the number of presses made while the whole detector is explored
DetectorPresses == 4

\* the time span and the number of presses explored with a timer that keeps
\* firing
TimerSpan == 480
TimerPresses == 3

MAX_PRESS_COUNT == 4
TRIPLE_JAIL_DURATION == 120
QUADRUPLE_JAIL_DURATION == 200

\* the queue length from which queueEvent drops events
QUEUE_LIMIT == 100

\* the input keys that are modelled, in the order of INPUT_KEYS
InputKeyOrder == << "W", "MIDDLE_CLICK" >>
InputKeys == { InputKeyOrder[n] : n \in DOMAIN InputKeyOrder }

\* profileLoader.DEFAULT_GESTURE_SETTINGS
DEFAULT_GESTURE_SETTINGS ==
  [ multiPressWindow |-> 350, longPressMin |-> 80, longPressMax |-> 145,
    superLongMin |-> 146, superLongMax |-> 265, cancelThreshold |-> 266 ]

settings == DEFAULT_GESTURE_SETTINGS

\* a nullable number: << >> is null, << t >> is the number t
None == << >>
Some(t) == << t >>

Min(a, b) == IF a <= b THEN a ELSE b

initialWindow == settings.multiPressWindow

\* Math.round(multiPressWindow * 0.8)
extensionWindow == (settings.multiPressWindow * 8 + 5) \div 10

\* a KeyGestureStateMachine after construction.  A PressRecord is modelled
\* by its pressType and the id of the physical press it records; its
\* timestamp is never read by the source and is left out.
NewMachine ==
  [ pressHistory |-> << >>, keyDownTime |-> None, pressLimitReached |-> FALSE,
    windowDeadline |-> None, waitingForRelease |-> FALSE,
    keyDownWasWithinWindow |-> FALSE, awaitJailUntil |-> 0 ]

\* mapGesture of resolveGesture: a gesture name is modelled by its base and
\* its suffix, e.g. "triple_long" is [base |-> "triple", type |-> "long"]
mapGesture(n, type) ==
  [ base |-> IF n = 1 THEN "single" ELSE IF n = 2 THEN "double"
             ELSE IF n = 3 THEN "triple" ELSE "quadruple",
    type |-> type ]

\* a variant that takes the suffix from the first press of the sequence
firstPress(pressHistory) == pressHistory[1]

\* the press whose type gives the gesture its suffix
lastPress(pressHistory) == pressHistory[Len(pressHistory)]

\* a variant without await jail
noJail(m, gesture, t) == m.awaitJailUntil

\* awaitJailUntil after resolving gesture at time t
jailUntil(m, gesture, t) ==
  IF gesture.base = "triple" THEN t + TRIPLE_JAIL_DURATION
  ELSE IF gesture.base = "quadruple" THEN t + QUADRUPLE_JAIL_DURATION
  ELSE m.awaitJailUntil

\* a variant of emitGesture that leaves the recorded presses in place
keepHistory(m) == m

\* the state reset of emitGesture
resetOnEmit(m) == [m EXCEPT !.pressHistory = << >>, !.pressLimitReached = FALSE]

\* KeyGestureStateMachine.resolveGesture followed by emitGesture, at time t:
\* the machine afterwards and the gestures queued for the callback
resolveGesture(m, t) ==
  LET count == Len(m.pressHistory)
  IN  IF count = 0 THEN [m |-> m, out |-> {}]
      ELSE LET capped == Min(count, MAX_PRESS_COUNT)
               gesture == mapGesture(capped, lastPress(m.pressHistory).pressType)
           IN  [ m |-> resetOnEmit([m EXCEPT !.awaitJailUntil =
                                                jailUntil(m, gesture, t)]),
                 out |-> { [ gesture |-> gesture,
                             ids |-> { m.pressHistory[n].id :
                                         n \in DOMAIN m.pressHistory } ] } ]

\* the key is already down for the machine: the key-down is an OS key repeat
isKeyRepeat(m) == m.keyDownTime /= None

\* KeyGestureStateMachine.handleKeyDown at time t
\* a variant of the 4th press test that takes the 3rd key-down as well
fourthAtTwo(m, withinWindow) ==
  Len(m.pressHistory) >= 2 /\ (withinWindow \/ m.waitingForRelease)

\* handleKeyDown: the key-down is the 4th of its sequence
isFourthPress(m, withinWindow) ==
  Len(m.pressHistory) = 3 /\ (withinWindow \/ m.waitingForRelease)

handleKeyDown(m, t) ==
  IF t < m.awaitJailUntil THEN m
  ELSE IF isKeyRepeat(m) THEN m
  ELSE IF m.pressLimitReached THEN m
  ELSE
    LET withinWindow == m.windowDeadline /= None /\ t <= m.windowDeadline[1]
        m1 == IF withinWindow
                THEN [m EXCEPT !.keyDownWasWithinWindow = TRUE,
                               !.windowDeadline = Some(t + extensionWindow)]
                ELSE [m EXCEPT !.pressHistory =
                                  IF m.waitingForRelease THEN @ ELSE << >>,
                               !.pressLimitReached =
                                  IF m.waitingForRelease THEN @ ELSE FALSE,
                               !.keyDownWasWithinWindow = FALSE,
                               !.windowDeadline = Some(t + initialWindow)]
        m2 == [m1 EXCEPT !.keyDownTime = Some(t)]
    IN  IF isFourthPress(m2, withinWindow)
          THEN [m2 EXCEPT !.windowDeadline = None, !.waitingForRelease = TRUE]
          ELSE m2

\* a variant of the classification with exclusive bounds
pressTypeStrict(holdDuration) ==
  IF holdDuration > settings.longPressMin /\ holdDuration < settings.longPressMax
    THEN "long"
  ELSE IF holdDuration > settings.superLongMin
          /\ holdDuration < settings.superLongMax
    THEN "super_long"
  ELSE "normal"

\* the pressType of a hold of holdDuration ms
pressTypeOf(holdDuration) ==
  IF holdDuration >= settings.longPressMin /\ holdDuration <= settings.longPressMax
    THEN "long"
  ELSE IF holdDuration >= settings.superLongMin
          /\ holdDuration <= settings.superLongMax
    THEN "super_long"
  ELSE "normal"

\* a variant of the cancel branch that keeps what was recorded
keepPress(m) == m

\* the cancel branch of handleKeyUp: nullify this key's recording
cancelPress(m) ==
  [m EXCEPT !.pressHistory = << >>, !.windowDeadline = None,
            !.waitingForRelease = FALSE]

\* a variant that resolves at the third press
limitAtThree(pressHistory) == Len(pressHistory) >= 3

\* the press history has reached the max press count
pressLimit(pressHistory) == Len(pressHistory) >= MAX_PRESS_COUNT

\* KeyGestureStateMachine.handleKeyUp at time t, for the physical press id
handleKeyUp(m, t, id) ==
  IF m.keyDownTime = None THEN [m |-> m, out |-> {}]
  ELSE
    LET holdDuration == t - m.keyDownTime[1]
        m0 == [m EXCEPT !.keyDownTime = None]
    IN  IF m0.pressLimitReached THEN [m |-> m0, out |-> {}]
        ELSE IF holdDuration >= settings.cancelThreshold
          THEN [m |-> cancelPress(m0), out |-> {}]
        ELSE
          LET countsTowardSequence ==
                \/ Len(m0.pressHistory) = 0
                \/ m0.keyDownWasWithinWindow
                \/ m0.waitingForRelease
              m1 == IF countsTowardSequence THEN m0
                    ELSE [m0 EXCEPT !.pressHistory = << >>,
                                    !.pressLimitReached = FALSE,
                                    !.waitingForRelease = FALSE]
              m2 == [m1 EXCEPT !.pressHistory =
                       Append(@, [pressType |-> pressTypeOf(holdDuration),
                                  id |-> id])]
          IN  IF pressLimit(m2.pressHistory)
                THEN resolveGesture([m2 EXCEPT !.pressLimitReached = TRUE,
                                               !.waitingForRelease = FALSE,
                                               !.windowDeadline = None], t)
                ELSE [m |-> m2, out |-> {}]

\* a variant of the periodic check that emits the gesture and leaves the
\* window and the recorded presses in place
checkWithoutReset(m, t) ==
  IF Len(m.pressHistory) = 0 THEN [m |-> m, out |-> {}]
  ELSE IF m.keyDownTime /= None THEN [m |-> m, out |-> {}]
  ELSE IF m.waitingForRelease THEN [m |-> m, out |-> {}]
  ELSE IF m.windowDeadline /= None /\ t > m.windowDeadline[1]
    THEN [m |-> m, out |-> resolveGesture(m, t).out]
  ELSE [m |-> m, out |-> {}]

\* a variant of the periodic check that never finalizes
neverPending(m, t) == [m |-> m, out |-> {}]

\* KeyGestureStateMachine.checkPendingGesture at time t
checkPendingGesture(m, t) ==
  IF Len(m.pressHistory) = 0 THEN [m |-> m, out |-> {}]
  ELSE IF m.keyDownTime /= None THEN [m |-> m, out |-> {}]
  ELSE IF m.waitingForRelease THEN [m |-> m, out |-> {}]
  ELSE IF m.windowDeadline /= None /\ t > m.windowDeadline[1]
    THEN resolveGesture([m EXCEPT !.windowDeadline = None], t)
  ELSE [m |-> m, out |-> {}]

\* ---- the detector and its environment
NoEv == [type |-> "none", key |-> ""]
NoGesture == [base |-> "none", type |-> "normal", time |-> 0, fresh |-> FALSE]
NoTapRun == [ids |-> << >>, types |-> << >>, gestures |-> << >>]
NoPhys == [down |-> FALSE, id |-> 0, allJailed |-> FALSE]
NoMarks == [cancelled |-> {}, jailed |-> {}]
PressIds == 1..MaxPresses

\* the subscribers that onGesture may register
ListenerOrder == << "L" >>
Listeners == { ListenerOrder[n] : n \in DOMAIN ListenerOrder }

\* the await jail as the claims state it: counted from the time the last
\* triple or quadruple on k was resolved
JailOf(base) ==
  IF base = "triple" THEN TRIPLE_JAIL_DURATION
  ELSE IF base = "quadruple" THEN QUADRUPLE_JAIL_DURATION
  ELSE 0

InJail(k) == now < lastGesture[k].time + JailOf(lastGesture[k].base)

\* queueMicrotask in emitGesture: the emissions machine k defers in one step
Deferred(k, out) ==
  IF out = {} THEN << >>
  ELSE LET e == CHOOSE x \in out : TRUE
       IN  << [inputKey |-> k, gesture |-> e.gesture, ids |-> e.ids] >>

\* the emissions deferred by one pass over the machines, in Map order
DeferredAll(res) ==
  LET F[n \in 0..Len(InputKeyOrder)] ==
        IF n = 0 THEN << >>
        ELSE F[n - 1] \o Deferred(InputKeyOrder[n], res[InputKeyOrder[n]].out)
  IN  F[Len(InputKeyOrder)]

\* a try block without its catch: what is thrown inside leaves it
rethrow(thrown) == thrown

\* try { ... } catch { }: nothing thrown inside leaves the block
caught(thrown) == FALSE

\* the central callback and then the listeners, in the order the emit
\* closure invokes them
Subscribers ==
  << "callback" >> \o SelectSeq(ListenerOrder, LAMBDA l : l \in listeners)

\* the invocations the emit closure makes of the subscribers subs, each in
\* a try block of its own, when those in throwers throw: who was invoked,
\* who threw, and whether an exception left the closure
RECURSIVE notify(_, _)
notify(subs, throwers) ==
  IF subs = << >> THEN [to |-> {}, threw |-> {}, escaped |-> FALSE]
  ELSE LET s == Head(subs)
           thrown == s \in throwers
           threwHere == IF thrown THEN {s} ELSE {}
       IN  IF caught(thrown)
             THEN [to |-> {s}, threw |-> threwHere, escaped |-> TRUE]
             ELSE LET rest == notify(Tail(subs), throwers)
                  IN  [to |-> {s} \cup rest.to,
                       threw |-> threwHere \cup rest.threw,
                       escaped |-> rest.escaped]

\* a variant of the emit closure without the isStopped guard
emitAlways(ev, throwers) ==
  LET n == notify(Subscribers, throwers)
  IN  { [inputKey |-> ev.inputKey, gesture |-> ev.gesture, ids |-> ev.ids,
         to |-> n.to, threw |-> n.threw, escaped |-> caught(n.escaped)] }

\* the closure GestureDetector hands to each machine as emitFn, run inside
\* the try block of the microtask of emitGesture: the invocations of the
\* central callback and of the listeners it makes
emitFn(ev, throwers) ==
  IF isStopped THEN {}
  ELSE LET n == notify(Subscribers, throwers)
       IN  { [inputKey |-> ev.inputKey, gesture |-> ev.gesture, ids |-> ev.ids,
              to |-> n.to, threw |-> n.threw, escaped |-> caught(n.escaped)] }

Counted(cnt, events) ==
  [ i \in DOMAIN cnt |->
      IF \E e \in events : i \in e.ids THEN Min(2, cnt[i] + 1) ELSE cnt[i] ]

Resolved(g, out) ==
  IF out = {} THEN g
  ELSE LET e == CHOOSE x \in out : TRUE
       IN  [base |-> e.gesture.base, type |-> e.gesture.type, time |-> now,
            fresh |-> TRUE]

WithGestures(R, out) ==
  IF out = {} \/ Len(R.gestures) >= 2 THEN R
  ELSE [R EXCEPT !.gestures = Append(@, (CHOOSE x \in out : TRUE).gesture)]

\* A call of the public interface is made by a task of the caller.  It can
\* follow another call of the same task before the emissions deferred so far
\* have run; the emissions deferred by the interval's callback run before
\* the next task starts.
CallerMayRun == microtasks = << >> \/ lastEv.type \notin {"none", "emit"}

\* a variant of the lookup in which every event reaches the first machine
firstMachine(key) == InputKeyOrder[1]

\* processEvent: the machine an event for key is handed to
machineOf(key) == key

\* a variant of queueEvent that never processes an event on arrival
alwaysQueue(processing) == FALSE

\* queueEvent: an event is processed on arrival unless one is being processed
processNow(processing) == ~processing

\* the loop of processEvent over the queued events q, oldest first, at time
\* t: the machines afterwards and the emissions deferred on the way
RECURSIVE drain(_, _, _)
drain(ms, q, t) ==
  IF q = << >> THEN [ms |-> ms, out |-> << >>]
  ELSE LET e == Head(q)
           k == machineOf(e.key)
       IN  IF e.type = "down"
             THEN drain([ms EXCEPT ![k] = handleKeyDown(ms[k], t)], Tail(q), t)
             ELSE LET res == handleKeyUp(ms[k], t, e.id)
                      rest == drain([ms EXCEPT ![k] = res.m], Tail(q), t)
                  IN  [ms |-> rest.ms, out |-> Deferred(k, res.out) \o rest.out]

\* queueEvent("down", key): dropped when the queue is full or after destroy,
\* appended to the queue while an event is being processed, and otherwise
\* handed to processEvent, which applies it to the key's machine and then
\* the queued events.  The event is the key-down of a new physical press, or
\* an OS key repeat of the press that is still held.
QueueDown(key) ==
  /\ UNCHANGED << execVars, valVars, trafVars, moreVars >>
  /\ CallerMayRun
  /\ key \in exercised
  /\ lastEv' = [type |-> "down", key |-> key]
  /\ gestEv' = {}
  /\ UNCHANGED << now, counted, marks, isStopped, listeners, exercised >>
  /\ IF Len(eventQueue) >= QUEUE_LIMIT \/ isStopped
       THEN UNCHANGED << machines, phys, nPress, tapRun, lastGesture,
                         microtasks, queueVars >>
     ELSE IF ~processNow(processingQueue)
       THEN /\ eventQueue' = Append(eventQueue,
                               [type |-> "down", key |-> key, id |-> phys[key].id])
            /\ UNCHANGED << machines, phys, nPress, tapRun, lastGesture,
                            microtasks, processingQueue >>
     ELSE
         LET k == machineOf(key)
             m == machines[k]
             m2 == handleKeyDown(m, now)
             rest == drain([machines EXCEPT ![k] = m2], eventQueue, now)
             repeat == phys[key].down
             id == IF repeat THEN phys[key].id ELSE nPress + 1
             accepted == m.keyDownTime = None /\ m2.keyDownTime /= None
             within == m.windowDeadline /= None /\ now <= m.windowDeadline[1]
         IN  /\ repeat \/ nPress < MaxPresses
             /\ machines' = rest.ms
             /\ microtasks' = microtasks \o rest.out
             /\ eventQueue' = << >>
             /\ processingQueue' = FALSE
             /\ nPress' = IF repeat THEN nPress ELSE nPress + 1
             /\ phys' = [phys EXCEPT ![key] =
                           [ down |-> TRUE, id |-> id,
                             allJailed |-> (repeat => phys[key].allJailed)
                                             /\ InJail(key) ]]
             /\ tapRun' =
                  IF InJail(key) \/ ~accepted THEN tapRun
                  ELSE IF within THEN [tapRun EXCEPT ![key].ids = Append(@, id)]
                  ELSE [tapRun EXCEPT ![key] = [NoTapRun EXCEPT !.ids = << id >>]]
             /\ lastGesture' =
                  IF accepted THEN [lastGesture EXCEPT ![key].fresh = FALSE]
                  ELSE lastGesture

\* queueEvent("up", key) in the same way, for the release of the physical
\* press.
QueueUp(key) ==
  /\ UNCHANGED << execVars, valVars, trafVars, moreVars >>
  /\ CallerMayRun
  /\ key \in exercised
  /\ lastEv' = [type |-> "up", key |-> key]
  /\ UNCHANGED << now, nPress, isStopped, listeners, exercised >>
  /\ IF Len(eventQueue) >= QUEUE_LIMIT \/ isStopped
       THEN /\ gestEv' = {}
            /\ UNCHANGED << machines, phys, counted, marks, microtasks,
                            tapRun, lastGesture, queueVars >>
     ELSE IF ~processNow(processingQueue)
       THEN /\ gestEv' = {}
            /\ eventQueue' = Append(eventQueue,
                               [type |-> "up", key |-> key, id |-> phys[key].id])
            /\ UNCHANGED << machines, phys, counted, marks, microtasks,
                            tapRun, lastGesture, processingQueue >>
     ELSE
         /\ phys[key].down
         /\ LET k == machineOf(key)
                m == machines[k]
                id == phys[key].id
                res == handleKeyUp(m, now, id)
                rest == drain([machines EXCEPT ![k] = res.m], eventQueue, now)
                held == m.keyDownTime /= None
                hold == IF held THEN now - m.keyDownTime[1] ELSE 0
                isCancel == held /\ hold >= DEFAULT_GESTURE_SETTINGS.cancelThreshold
                R == tapRun[key]
                R1 == IF phys[key].allJailed
                        THEN IF /\ InJail(key)
                                /\ Len(R.ids) >= 4
                                /\ Len(R.types) = Len(R.ids)
                               THEN [R EXCEPT !.ids = Append(@, id),
                                              !.types = Append(@, "jailed")]
                               ELSE R
                      ELSE IF held
                        THEN [R EXCEPT !.types =
                                Append(@, IF isCancel THEN "cancelled"
                                          ELSE pressTypeOf(hold))]
                      ELSE R
            IN  /\ machines' = rest.ms
                /\ eventQueue' = << >>
                /\ processingQueue' = FALSE
                /\ phys' = [phys EXCEPT ![key].down = FALSE]
                /\ gestEv' = {}
                /\ microtasks' = microtasks \o Deferred(k, res.out) \o rest.out
                /\ counted' = Counted(counted, res.out)
                /\ lastGesture' = [lastGesture EXCEPT ![k] = Resolved(@, res.out)]
                /\ tapRun' = [tapRun EXCEPT ![key] = WithGestures(R1, res.out)]
                /\ marks' = [marks EXCEPT ![key] =
                     [ cancelled |-> @.cancelled
                                       \cup (IF isCancel THEN {id} ELSE {}),
                       jailed |-> @.jailed
                                    \cup (IF phys[key].allJailed THEN {id}
                                          ELSE {}) ]]

\* GestureDetector.handleKeyDown(key), for a key of the keyboard
HandleKeyDown(k) == k /= "MIDDLE_CLICK" /\ QueueDown(k)

\* GestureDetector.handleKeyUp(key), for a key of the keyboard
HandleKeyUp(k) == k /= "MIDDLE_CLICK" /\ QueueUp(k)

\* GestureDetector.handleMouseDown(button): other buttons are ignored
HandleMouseDown(button) == button = "MIDDLE_CLICK" /\ QueueDown(button)

\* GestureDetector.handleMouseUp(button): other buttons are ignored
HandleMouseUp(button) == button = "MIDDLE_CLICK" /\ QueueUp(button)

\* the 20 ms interval of the detector: checkAllPendingGestures.  A timer
\* callback starts only when the microtasks of the task before it have run.
Tick ==
  /\ UNCHANGED << execVars, valVars, trafVars, moreVars >>
  /\ microtasks = << >>
  /\ lastEv' = NoEv
  /\ gestEv' = {}
  /\ UNCHANGED << now, phys, nPress, marks, isStopped, listeners, exercised,
                  queueVars >>
  /\ IF isStopped
       THEN UNCHANGED << machines, microtasks, counted, lastGesture, tapRun >>
       ELSE
         LET res == [k \in InputKeys |-> checkPendingGesture(machines[k], now)]
         IN  /\ machines' = [k \in InputKeys |-> res[k].m]
             /\ microtasks' = DeferredAll(res)
             /\ counted' = Counted(counted, UNION { res[k].out : k \in InputKeys })
             /\ lastGesture' =
                  [k \in InputKeys |-> Resolved(lastGesture[k], res[k].out)]
             /\ tapRun' = [k \in InputKeys |-> WithGestures(tapRun[k], res[k].out)]

\* the oldest deferred emission runs: the closure given to queueMicrotask.
\* Any of the subscribers may throw when it is invoked.
RunMicrotask ==
  /\ UNCHANGED << execVars, valVars, trafVars, moreVars >>
  /\ microtasks /= << >>
  /\ microtasks' = Tail(microtasks)
  /\ \E throwers \in SUBSET ({"callback"} \cup Listeners) :
       gestEv' = emitFn(Head(microtasks), throwers)
  /\ lastEv' = [type |-> "emit", key |-> Head(microtasks).inputKey]
  /\ UNCHANGED << now, machines, phys, nPress, counted, marks, lastGesture,
                  tapRun, isStopped, listeners, exercised,
                  queueVars >>

\* GestureDetector.destroy().  What was observed of the keys and their
\* presses is forgotten with the detector.
Destroy ==
  /\ UNCHANGED << execVars, valVars, trafVars, moreVars >>
  /\ CallerMayRun
  /\ isStopped' = TRUE
  /\ machines' = [k \in InputKeys |-> NewMachine]
  /\ listeners' = {}
  /\ lastEv' = [type |-> "destroy", key |-> ""]
  /\ gestEv' = {}
  /\ phys' = [k \in InputKeys |-> NoPhys]
  /\ counted' = [i \in PressIds |-> 0]
  /\ marks' = [k \in InputKeys |-> NoMarks]
  /\ lastGesture' = [k \in InputKeys |-> NoGesture]
  /\ tapRun' = [k \in InputKeys |-> NoTapRun]
  /\ eventQueue' = << >>
  /\ UNCHANGED << now, nPress, microtasks, exercised, processingQueue >>

\* GestureDetector.onGesture(cb)
OnGesture(l) ==
  /\ UNCHANGED << execVars, valVars, trafVars, moreVars >>
  /\ CallerMayRun
  /\ listeners' = listeners \cup {l}
  /\ lastEv' = [type |-> "listen", key |-> ""]
  /\ gestEv' = {}
  /\ UNCHANGED << now, machines, phys, nPress, counted, marks, lastGesture,
                  tapRun, microtasks, isStopped, exercised,
                  queueVars >>

\* GestureDetector.offGesture(cb)
OffGesture(l) ==
  /\ UNCHANGED << execVars, valVars, trafVars, moreVars >>
  /\ CallerMayRun
  /\ listeners' = listeners \ {l}
  /\ lastEv' = [type |-> "listen", key |-> ""]
  /\ gestEv' = {}
  /\ UNCHANGED << now, machines, phys, nPress, counted, marks, lastGesture,
                  tapRun, microtasks, isStopped, exercised,
                  queueVars >>

\* time passes, between two tasks of the event loop
Advance ==
  /\ UNCHANGED << execVars, valVars, trafVars, moreVars >>
  /\ microtasks = << >>
  /\ now + TimeStep <= MaxTime
  /\ now' = now + TimeStep
  /\ gestEv' = {}
  /\ lastEv' = NoEv
  /\ UNCHANGED << machines, phys, nPress, counted, marks, lastGesture, tapRun,
                  microtasks, isStopped, listeners, exercised,
                  queueVars >>

\* the detector after construction, started at time t0 and after n0 presses
\* were made, with the keys the environment is going to press
GestureStart(t0, keys, n0) ==
  /\ now = t0
  /\ machines = [k \in InputKeys |-> NewMachine]
  /\ phys = [k \in InputKeys |-> NoPhys]
  /\ nPress = n0
  /\ gestEv = {}
  /\ lastEv = NoEv
  /\ counted = [i \in PressIds |-> 0]
  /\ marks = [k \in InputKeys |-> NoMarks]
  /\ lastGesture = [k \in InputKeys |-> NoGesture]
  /\ tapRun = [k \in InputKeys |-> NoTapRun]
  /\ microtasks = << >>
  /\ isStopped = FALSE
  /\ listeners = {}
  /\ exercised = keys
  /\ eventQueue = << >>
  /\ processingQueue = FALSE

GestureInit == GestureStart(0, {"W"}, 0)

\* ------------------------------------------------------------- validation
\* validateSequence is applied to sequences of individually valid steps:
\* nR steps on "R", nSR on "SHIFT+R", nr on "r" (each at most MaxRep), and
\* one step on each key of a subset of OtherKeys.
MaxRep == 4

K_r == <<"r">>
OtherOrder == << K_Q, <<"E">>, <<"F">>, <<"G">> >>
OtherKeys == SeqRange(OtherOrder)

RECURSIVE Rep(_, _)
Rep(step, n) == IF n = 0 THEN << >> ELSE << step >> \o Rep(step, n - 1)

InOthers(v, key) == key \in v.others

BuildSeq(v) ==
  Rep(Step(K_R), v.nR) \o Rep(Step(K_SR), v.nSR) \o Rep(Step(K_r), v.nr)
    \o [ n \in DOMAIN SelectSeq(OtherOrder, LAMBDA key : InOthers(v, key)) |->
           Step(SelectSeq(OtherOrder, LAMBDA key : InOthers(v, key))[n]) ]

ValInputs ==
  [ nR : 0..MaxRep, nSR : 0..MaxRep, nr : 0..MaxRep, others : SUBSET OtherKeys ]

NoValIn == [nR |-> 0, nSR |-> 0, nr |-> 0, others |-> {}]

\* SequenceExecutor.validateSequence(seqIn) is called
Validate ==
  /\ UNCHANGED << execVars, gestVars, trafVars, moreVars >>
  /\ verdict = "none"
  /\ verdict' = validateSequence(seqIn)
  /\ UNCHANGED << valIn, seqIn >>

ValidateIdle ==
  /\ valIn = NoValIn
  /\ seqIn = << >>
  /\ verdict = "none"

\* ------------------------------------- the traffic controller, called directly
\* At most MaxParties callers use the controller at a time.
MaxParties == 3

\* The callers make at most MaxRequests requests where they are finitely
\* many contenders.
MaxRequests == 3

K_AQ == <<"ALT", "Q">>

\* the profile the controller is constructed with: R and Q are used bare and
\* with a modifier, J only bare
TrafficKeys == { K_R, K_SR, K_Q, K_AQ, K_J }
trafficProfile == compileProfile({ Step(k) : k \in TrafficKeys })

Parties == 1..MaxParties
NoParty == [pc |-> "idle", key |-> NoKey, waited |-> FALSE]

\* a variant of the membership test that takes every key for a conundrum key
anyRaw(raw, compiled) == TRUE

\* this.compiledProfile.conundrumKeys.has(raw)
isConundrum(raw, compiled) == raw \in compiled.conundrumKeys

Without(s, p) == SelectSeq(s, LAMBDA x : x /= p)

\* requestCrossing(key, macroName) up to its first await, or to its return
\* when it need not wait
RequestCrossing(p, key, macroName) ==
  /\ UNCHANGED << execRest, gestVars, valVars, supremacyMacros, moreVars >>
  /\ party[p].pc = "idle"
  /\ requests' = Min(MaxRequests, requests + 1)
  /\ IF Bypasses(macroName) \/ ~isConundrum(extractRawKey(key), trafficProfile)
       THEN /\ party' = [party EXCEPT ![p] = [pc |-> "passed", key |-> key, waited |-> FALSE]]
            /\ UNCHANGED << crossingKey, queue, waitOrder, queueBy >>
       ELSE LET raw == extractRawKey(key)
                q == Append(queue, raw)
            IN  /\ queue' = q
                /\ queueBy' = Append(queueBy, p)
                /\ IF shouldWait(raw, q)
                     THEN /\ party' = [party EXCEPT ![p] =
                                         [pc |-> "waiting", key |-> key,
                                          waited |-> TRUE]]
                          /\ waitOrder' = Append(waitOrder, p)
                          /\ UNCHANGED crossingKey
                     ELSE /\ party' = [party EXCEPT ![p] =
                                         [pc |-> "holding", key |-> key,
                                          waited |-> FALSE]]
                          /\ crossingKey' = raw
                          /\ UNCHANGED waitOrder

\* one turn of the wait loop of requestCrossing after its sleep
PollParty(p) ==
  /\ UNCHANGED << execRest, gestVars, valVars, supremacyMacros, moreVars >>
  /\ party[p].pc = "waiting"
  /\ IF shouldWait(extractRawKey(party[p].key), queue)
       THEN UNCHANGED << crossingKey, party, waitOrder >>
       ELSE /\ crossingKey' = extractRawKey(party[p].key)
            /\ party' = [party EXCEPT ![p].pc = "holding"]
            /\ waitOrder' = Without(waitOrder, p)
  /\ UNCHANGED << queue, queueBy, requests >>

\* releaseCrossing(key), called by a caller whose request has returned
ReleaseCrossing(p) ==
  /\ UNCHANGED << execRest, gestVars, valVars, supremacyMacros, moreVars >>
  /\ party[p].pc \in {"holding", "passed"}
  /\ crossingKey' = releasedHolder(party[p].key)
  /\ queue' = releasedQueue(party[p].key)
  /\ queueBy' = IF releasedQueue(party[p].key) /= queue THEN Tail(queueBy)
                ELSE queueBy
  /\ party' = [party EXCEPT ![p] = NoParty]
  /\ UNCHANGED << waitOrder, requests >>

\* the names supremacy is granted to
SupremacyNames == {"A"}

\* TrafficController.grantSupremacy(macroName)
GrantSupremacy(b) ==
  /\ UNCHANGED << gestVars, valVars, party, waitOrder, queueBy, requests, moreVars >>
  /\ cur = 0
  /\ lastOp' = NoOp /\ sinkEv' = << >>
  /\ UNCHANGED << crossingKey, queue, isExecuting, activeExecutions, run, cur,
                  evCount, invalidCalls >>
  /\ supremacyMacros' = supremacyMacros \cup {b}

\* TrafficController.revokeSupremacy(macroName)
RevokeSupremacy(b) ==
  /\ UNCHANGED << gestVars, valVars, party, waitOrder, queueBy, requests, moreVars >>
  /\ cur = 0
  /\ lastOp' = NoOp /\ sinkEv' = << >>
  /\ UNCHANGED << crossingKey, queue, isExecuting, activeExecutions, run, cur,
                  evCount, invalidCalls >>
  /\ supremacyMacros' = supremacyMacros \ {b}

\* the controller after construction, with no caller
TrafficIdle ==
  /\ supremacyMacros = {}
  /\ party = [p \in Parties |-> NoParty]
  /\ waitOrder = << >>
  /\ queueBy = << >>
  /\ requests = 0

\* ------------------------------------------------------ the profile compilers
\* The step keys a profile may use: the bases R and Q, bare, in lower case,
\* and under Shift, Alt, Alt+Shift and Control.
KeyPool ==
  { K_R, K_r, K_SR, <<"ALT", "R">>, <<"ALT", "SHIFT", "R">>, <<"CTRL", "R">>,
    K_Q, <<"SHIFT", "Q">>, K_AQ, <<"ALT", "SHIFT", "Q">>, <<"CTRL", "Q">> }

StepsOf(keys) == { Step(key) : key \in keys }

\* compileProfilePatched: Shift-only, Alt-only and Alt+Shift are told apart
compileProfilePatched(steps) ==
  LET hasShift(t) == HasMod(t.key, "SHIFT")
      hasAlt(t)   == HasMod(t.key, "ALT")
      rawSet      == { extractRawKey(s.key) : s \in { t \in steps :
                         ~hasShift(t) /\ ~hasAlt(t) } }
      shiftSet    == { extractRawKey(s.key) : s \in { t \in steps :
                         hasShift(t) /\ ~hasAlt(t) } }
      altSet      == { extractRawKey(s.key) : s \in { t \in steps :
                         hasAlt(t) /\ ~hasShift(t) } }
      altShiftSet == { extractRawKey(s.key) : s \in { t \in steps :
                         hasAlt(t) /\ hasShift(t) } }
      allKeys     == rawSet \cup shiftSet \cup altSet \cup altShiftSet
      forms(k)    == (IF k \in rawSet THEN 1 ELSE 0)
                     + (IF k \in shiftSet THEN 1 ELSE 0)
                     + (IF k \in altSet THEN 1 ELSE 0)
                     + (IF k \in altShiftSet THEN 1 ELSE 0)
      isCon(k)    == \/ forms(k) > 1 /\ ~(k \in altShiftSet /\ forms(k) = 2)
                     \/ forms(k) > 2
  IN  [ conundrumKeys |-> { k \in allKeys : isCon(k) },
        safeKeys |-> { k \in allKeys :
                         ~isCon(k) /\ forms(k) = 1 /\ k \in rawSet } ]

NotCompiled == [done |-> FALSE, conundrumKeys |-> {}, safeKeys |-> {}]
Compiled(c) ==
  [done |-> TRUE, conundrumKeys |-> c.conundrumKeys, safeKeys |-> c.safeKeys]

\* compileProfile(profile) is called
CompileMain ==
  /\ UNCHANGED << execVars, gestVars, valVars, trafVars, agentVars >>
  /\ ~compiledMain.done
  /\ compiledMain' = Compiled(compileProfile(StepsOf(profileKeys)))
  /\ UNCHANGED << profileKeys, compiledPatched >>

\* compileProfilePatched(profile) is called
CompilePatched ==
  /\ UNCHANGED << execVars, gestVars, valVars, trafVars, agentVars >>
  /\ ~compiledPatched.done
  /\ compiledPatched' = Compiled(compileProfilePatched(StepsOf(profileKeys)))
  /\ UNCHANGED << profileKeys, compiledMain >>

\* no profile has been handed to the compilers
CompileIdle ==
  /\ profileKeys = {}
  /\ compiledMain = NotCompiled
  /\ compiledPatched = NotCompiled

\* ------------------------------------------------------------- the dispatcher
\* A profile has at most MaxMacros bindings.
MaxMacros == 3

AgentGestures == { mapGesture(1, "normal"), mapGesture(1, "long") }

\* a MacroBinding as handleGesture reads it; its name is its place in the
\* profile
Triggers == [ key : InputKeys, gesture : AgentGestures, enabled : BOOLEAN ]

MacroLists == UNION { [1..n -> Triggers] : n \in 0..MaxMacros }

GestureEvents == [ inputKey : InputKeys, gesture : AgentGestures ]

NoGestureIn == [inputKey |-> "", gesture |-> mapGesture(1, "normal")]

\* a variant of the predicate that does not look at enabled
matchesTrigger(m, event) ==
  m.key = event.inputKey /\ m.gesture = event.gesture

\* the predicate handed to profile.macros.find
matches(m, event) ==
  m.key = event.inputKey /\ m.gesture = event.gesture /\ m.enabled

\* Array.prototype.find over profile.macros: the places found, at most one
find(list, event) ==
  { n \in DOMAIN list :
      /\ matches(list[n], event)
      /\ \A j \in 1..(n - 1) : ~matches(list[j], event) }

\* MacroAgent.handleGesture(event)
HandleGesture(event) ==
  /\ UNCHANGED << execVars, gestVars, valVars, trafVars, compVars >>
  /\ gestureIn' = event
  /\ dispatched' =
       IF agentStopped THEN << >>
       ELSE LET found == find(macros, event)
            IN  IF found = {} THEN << >>
                ELSE << CHOOSE n \in found : TRUE >>
  /\ UNCHANGED << macros, agentStopped >>

\* MacroAgent.stop()
StopAgent ==
  /\ UNCHANGED << execVars, gestVars, valVars, trafVars, compVars >>
  /\ ~agentStopped
  /\ agentStopped' = TRUE
  /\ gestureIn' = NoGestureIn
  /\ dispatched' = << >>
  /\ UNCHANGED macros

\* the agent before a profile is loaded
AgentIdle ==
  /\ macros = << >>
  /\ agentStopped = FALSE
  /\ gestureIn = NoGestureIn
  /\ dispatched = << >>

\* ---------------------------------------------------------- specifications
ExecutorInit ==
  /\ isExecuting = [b \in Bindings |-> FALSE]
  /\ activeExecutions = {}
  /\ crossingKey = ""
  /\ queue = << >>
  /\ run = [r \in Runs |-> FreeRun]
  /\ cur = 0
  /\ evCount = [b \in Bindings |-> [t \in EventTypes |-> 0]]
  /\ sinkEv = << >>
  /\ lastOp = NoOp
  /\ invalidCalls = 0
  /\ TrafficIdle

InitExec == ExecutorInit /\ GestureInit /\ ValidateIdle /\ CompileIdle /\ AgentIdle


NextExec ==
  \/ \E b \in Bindings : ExecuteDetached(b)
  \/ \E b \in Bindings : Execute(b)
  \/ \E b \in Bindings : Cancel(b)
  \/ CancelAll
  \/ \E r \in Runs : HitTop(r)
  \/ \E r \in Runs : AudioDone(r)
  \/ \E r \in Runs : Traffic(r)
  \/ \E r \in Runs : PollCrossing(r)
  \/ \E r \in Runs : KeyDown(r)
  \/ \E r \in Runs : KeyUp(r)
  \/ \E r \in Runs : DualDown(r)
  \/ \E r \in Runs : PrimaryUp(r)
  \/ \E r \in Runs : DualUp(r)
  \/ \E r \in Runs : BufferDone(r)
  \/ \E b \in SupremacyNames : GrantSupremacy(b)
  \/ \E b \in SupremacyNames : RevokeSupremacy(b)

vars == << execVars, gestVars, valVars, trafVars, moreVars >>

SpecExec == InitExec /\ [][NextExec]_vars

\* every timer and continuation of a run eventually fires
SpecExecFair == SpecExec /\ \A r \in Runs : WF_vars(RunStep(r))


\* the gesture detector under key events, its interval and the passing of time
InitGesture == InitExec

NextGesture ==
  \/ \E k \in InputKeys : HandleKeyDown(k)
  \/ \E k \in InputKeys : HandleKeyUp(k)
  \/ Tick
  \/ RunMicrotask
  \/ Advance

SpecGesture == InitGesture /\ [][NextGesture]_vars

\* the whole detector over a shorter time: two input keys, one of them the
\* mouse button, subscribers, and destroy
InitDetector ==
  /\ ExecutorInit /\ ValidateIdle /\ CompileIdle /\ AgentIdle
  /\ GestureStart(MaxTime - DetectorSpan, InputKeys, MaxPresses - DetectorPresses)

NextDetector ==
  \/ \E k \in InputKeys : HandleKeyDown(k)
  \/ \E k \in InputKeys : HandleKeyUp(k)
  \/ \E b \in InputKeys : HandleMouseDown(b)
  \/ \E b \in InputKeys : HandleMouseUp(b)
  \/ Tick
  \/ RunMicrotask
  \/ Destroy
  \/ \E l \in Listeners : OnGesture(l)
  \/ \E l \in Listeners : OffGesture(l)
  \/ Advance

SpecDetector == InitDetector /\ [][NextDetector]_vars

\* one key of the detector with an interval that keeps firing, deferred
\* emissions that run, and time that passes; destroy is not called
InitTimer ==
  /\ ExecutorInit /\ ValidateIdle /\ CompileIdle /\ AgentIdle
  /\ GestureStart(MaxTime - TimerSpan, {"W"}, MaxPresses - TimerPresses)

SpecTimerFair ==
  /\ InitTimer /\ [][NextGesture]_vars
  /\ WF_vars(Tick) /\ WF_vars(RunMicrotask) /\ WF_vars(Advance)

\* the traffic controller under callers that request a crossing, wait for
\* it, and release it
InitTraffic == InitExec

NextTraffic ==
  \/ \E p \in Parties : \E key \in TrafficKeys : RequestCrossing(p, key, NoMacro)
  \/ \E p \in Parties : PollParty(p)
  \/ \E p \in Parties : ReleaseCrossing(p)

SpecTraffic == InitTraffic /\ [][NextTraffic]_vars

\* finitely many contenders: at most MaxRequests requests are made, the wait
\* loop of every waiting caller keeps polling, and every caller whose
\* request has returned releases the crossing
NextContend ==
  \/ \E p \in Parties : \E key \in TrafficKeys :
       requests < MaxRequests /\ RequestCrossing(p, key, NoMacro)
  \/ \E p \in Parties : PollParty(p)
  \/ \E p \in Parties : ReleaseCrossing(p)

SpecTrafficFair ==
  /\ InitTraffic /\ [][NextContend]_vars
  /\ \A p \in Parties : WF_vars(PollParty(p)) /\ WF_vars(ReleaseCrossing(p))

\* validateSequence applied to every sequence of ValInputs
InitValidate ==
  /\ ExecutorInit /\ GestureInit /\ CompileIdle /\ AgentIdle
  /\ valIn \in ValInputs
  /\ seqIn = BuildSeq(valIn)
  /\ verdict = "none"

NextValidate == Validate

SpecValidate == InitValidate /\ [][NextValidate]_vars


\* the two profile compilers applied to every profile over KeyPool
InitCompile ==
  /\ ExecutorInit /\ GestureInit /\ ValidateIdle /\ AgentIdle
  /\ profileKeys \in SUBSET KeyPool
  /\ compiledMain = NotCompiled
  /\ compiledPatched = NotCompiled

NextCompile ==
  \/ CompileMain
  \/ CompilePatched

SpecCompile == InitCompile /\ [][NextCompile]_vars

\* the dispatcher with every profile of at most MaxMacros bindings, under
\* gestures delivered by the detector, and stop
InitAgent ==
  /\ ExecutorInit /\ GestureInit /\ ValidateIdle /\ CompileIdle
  /\ macros \in MacroLists
  /\ agentStopped = FALSE
  /\ gestureIn = NoGestureIn
  /\ dispatched = << >>

NextAgent ==
  \/ \E event \in GestureEvents : HandleGesture(event)
  \/ StopAgent

SpecAgent == InitAgent /\ [][NextAgent]_vars

\* ------------------------------------------------------------------ claims
IsKeyDown(ev) == ev.dir \in {"down", "tap"}
IsConundrum(key) == extractRawKey(key) \in compiledProfile.conundrumKeys

\* run r is a running sequence whose step key is a conundrum key and is down
HoldsConundrum(r) ==
  InProgress(r) /\ run[r].primDown /\ IsConundrum(CurStep(r).key)

\* C1: while one running sequence holds a conundrum step key down, no other
\* running sequence emits a key-down (primary or dual) on a key whose raw
\* projection is a conundrum key.
C1_NoKeyDownWhileConundrumHeld ==
  \A n \in DOMAIN sinkEv :
    (IsKeyDown(sinkEv[n]) /\ IsConundrum(sinkEv[n].key))
      => \A r \in Runs \ {sinkEv[n].run} : ~HoldsConundrum(r)

\* C2: at most one run of a given binding name is in progress at any time.
C2_NoSelfOverlap == \A b \in Bindings : Cardinality(RunsOf(b)) <= 1

\* C3: an executeDetached(A) made while a run of A is in progress is a no-op,
\* i.e. it is never the call that changed the executor's state.
C3_DetachedWhileRunningIsNoOp ==
  lastOp.op = "executeDetached" => ~lastOp.inProgress

AnyCancel == \E b \in Bindings : evCount[b]["cancelled"] > 0

\* C4: runs of distinct bindings are in progress together, and absent
\* cancellation every run that started eventually emits completed.
C4_BothRunAndComplete ==
  /\ [](\A b \in Bindings : (RunsOf(b) /= {} /\ ~AnyCancel) => b \in activeExecutions)
  /\ \A r \in Runs : (InProgress(r) ~> (run[r].result = "completed" \/ AnyCancel))

\* C5: a run that has been cancelled emits no further key-down to the OS sink.
C5_NoKeyDownAfterCancel ==
  \A n \in DOMAIN sinkEv : IsKeyDown(sinkEv[n]) => ~run[sinkEv[n].run].cancelled

FailsValidation(b) == validateSequence(Profile[b]) /= "ok"

\* C6: executing a binding whose sequence fails validation emits exactly one
\* error event and changes nothing else: no started event, no sink call, no
\* crossing request, isExecuting and activeExecutions as before.
C6_ValidationFailureHasNoSideEffects ==
  [][ (lastOp'.op \in {"execute", "executeDetached"} /\ FailsValidation(lastOp'.binding))
        => /\ evCount' = Emit(evCount, lastOp'.binding, "error")
           /\ evCount'[lastOp'.binding]["started"] = 0
           /\ sinkEv' = << >>
           /\ queue' = queue /\ crossingKey' = crossingKey
           /\ isExecuting' = isExecuting /\ ~isExecuting'[lastOp'.binding]
           /\ activeExecutions' = activeExecutions
           /\ run' = run /\ cur' = cur ]_vars

C6_Witness ==
  /\ lastOp.op = "execute" /\ FailsValidation(lastOp.binding)
  /\ evCount[lastOp.binding]["error"] = 1
  /\ activeExecutions /= {}
\* ---- C7
\* the number of distinct keys and the largest number of steps on one key,
\* when keys are told apart by base (modifiers discarded) ...
BasesOf(v) ==
  (IF v.nR + v.nSR + v.nr > 0 THEN 1 ELSE 0) + Cardinality(v.others)
MaxPerBase(v) ==
  Max(v.nR + v.nSR + v.nr, IF v.others = {} THEN 0 ELSE 1)

\* ... and when they are told apart by the whole key string, ignoring case
KeyStringsOf(v) ==
  (IF v.nR + v.nr > 0 THEN 1 ELSE 0) + (IF v.nSR > 0 THEN 1 ELSE 0)
    + Cardinality(v.others)
MaxPerKeyString(v) ==
  Max(Max(v.nR + v.nr, v.nSR), IF v.others = {} THEN 0 ELSE 1)

\* C7 as stated: a sequence of valid steps is rejected exactly when it uses
\* more than 4 distinct bases or has more than 6 steps on one base.
C7_CountsByBase ==
  verdict /= "none"
    => (verdict /= "ok" <=> (BasesOf(valIn) > 4 \/ MaxPerBase(valIn) > 6))

\* C7 as the code has it: a sequence of valid steps is rejected exactly when
\* it uses more than 4 distinct key strings (modifiers kept, case ignored) or
\* has more than 6 steps with the same key string.
C7_CountsByKeyString ==
  verdict /= "none"
    => /\ verdict = "uniqueKeys" <=> KeyStringsOf(valIn) > 4
       /\ verdict = "stepsPerKey"
            <=> (KeyStringsOf(valIn) <= 4 /\ MaxPerKeyString(valIn) > 6)
       /\ verdict = "ok"
            <=> (KeyStringsOf(valIn) <= 4 /\ MaxPerKeyString(valIn) <= 6)

\* eight steps on the base R, split between "R" and "SHIFT+R", are accepted
C7_Witness ==
  /\ verdict = "ok"
  /\ valIn.nR > 0 /\ valIn.nSR > 0
  /\ valIn.nR + valIn.nSR + valIn.nr > 6

\* ---- C8
\* a run of presses on k that has at least five members, all released, none
\* of the first four held up to the cancel threshold
FiveTapRun(k) ==
  /\ Len(tapRun[k].ids) >= 5
  /\ Len(tapRun[k].types) = Len(tapRun[k].ids)
  /\ \A n \in 1..4 : tapRun[k].types[n] /= "cancelled"

\* C8: a run of five or more taps on one key, the first four each inside the
\* current window and the others before the jail expires, emits exactly one
\* gesture: a quadruple with the suffix of the 4th press, counting the first
\* four taps; the 5th and later taps are counted by no gesture.
C8_FiveTapsMakeOneQuadruple ==
  \A k \in InputKeys :
    FiveTapRun(k)
      => /\ tapRun[k].gestures =
              << [base |-> "quadruple", type |-> tapRun[k].types[4]] >>
         /\ \A n \in 1..4 : counted[tapRun[k].ids[n]] = 1
         /\ \A n \in 5..Len(tapRun[k].ids) : counted[tapRun[k].ids[n]] = 0

\* six taps, the 4th a long press, and the jail of the quadruple is over
C8_Witness ==
  \E k \in InputKeys :
    /\ FiveTapRun(k)
    /\ Len(tapRun[k].ids) >= 6
    /\ tapRun[k].types[4] = "long"
    /\ ~InJail(k)

\* ---- C9
KeyDownOn(k) == lastEv' = [type |-> "down", key |-> k]
KeyUpOn(k) == lastEv' = [type |-> "up", key |-> k]
Dropped(k) ==
  machines'[k] = machines[k] /\ microtasks' = microtasks /\ gestEv' = {}

\* the machine of k after the key-down that starts a fresh sequence
FreshKeyDown(k) ==
  [NewMachine EXCEPT !.keyDownTime = Some(now),
                     !.windowDeadline = Some(now + settings.multiPressWindow),
                     !.awaitJailUntil = machines[k].awaitJailUntil]

\* C9: a key-down on k less than 120 ms after a triple was resolved on k, or
\* less than 200 ms after a quadruple, leaves the machine as it is; so does
\* the key-up of a press whose key-downs were all dropped in this way, and
\* no gesture counts such a press; the first key-down after the jail starts
\* a fresh sequence.
C9_JailDropsPresses ==
  /\ [][ \A k \in InputKeys :
           /\ (KeyDownOn(k) /\ InJail(k)) => Dropped(k)
           /\ (KeyUpOn(k) /\ phys[k].allJailed) => Dropped(k)
           /\ (KeyDownOn(k) /\ ~InJail(k) /\ lastGesture[k].fresh
                 /\ lastGesture[k].base \in {"triple", "quadruple"})
                => machines'[k] = FreshKeyDown(k) ]_vars
  /\ [](\A k \in InputKeys : \A id \in marks[k].jailed : counted[id] = 0)

\* after a triple and a tap dropped by its jail, the next press is accepted
C9_Witness ==
  \E k \in InputKeys :
    /\ lastEv = [type |-> "down", key |-> k]
    /\ lastGesture[k].base = "triple" /\ ~lastGesture[k].fresh
    /\ machines[k].keyDownTime = Some(now)
    /\ marks[k].jailed /= {}
    /\ phys[k].id \notin marks[k].jailed

\* ---- C10
\* the machine is idle and accepts the next key-down as the start of a sequence
Usable(m) ==
  /\ m.pressHistory = << >> /\ m.keyDownTime = None /\ m.windowDeadline = None
  /\ ~m.waitingForRelease /\ ~m.pressLimitReached
  /\ now >= m.awaitJailUntil

\* C10: a press released after a hold of cancelThreshold or more is counted
\* by no gesture; right after its key-up the machine is idle and out of
\* jail, and nothing recorded before it stays in the press history.
C10_CancelledPressIsDiscarded ==
  \A k \in InputKeys :
    /\ \A id \in marks[k].cancelled : counted[id] = 0
    /\ (lastEv = [type |-> "up", key |-> k] /\ phys[k].id \in marks[k].cancelled)
         => Usable(machines[k])
    /\ \A n \in DOMAIN machines[k].pressHistory :
         \A id \in marks[k].cancelled : machines[k].pressHistory[n].id > id

\* the press made right after a cancelled one is resolved as a single
C10_Witness ==
  \E k \in InputKeys : \E e \in gestEv :
    /\ e.inputKey = k /\ e.gesture.base = "single"
    /\ \E id \in marks[k].cancelled : e.ids = {id + 1}

\* ---- C11
\* C11: whenever the central callback and the listeners are invoked for a
\* gesture on key k, the machine of k has already been reset: its press
\* history is empty and its press-limit flag is clear.
C11_ResetBeforeEmission ==
  \A e \in gestEv :
    /\ machines[e.inputKey].pressHistory = << >>
    /\ ~machines[e.inputKey].pressLimitReached

\* a quadruple is delivered after a key-down that arrived between its
\* resolution and its deferred emission
C11_Witness ==
  \E e \in gestEv :
    /\ e.gesture.base = "quadruple"
    /\ phys[e.inputKey].down

\* ---- C12
\* the emissions deferred by the step, and those of them that are for key k
NewEmissions ==
  IF Len(microtasks') > Len(microtasks)
    THEN { microtasks'[n] : n \in (Len(microtasks) + 1)..Len(microtasks') }
    ELSE {}
EmittedFor(k) == { e \in NewEmissions : e.inputKey = k }

\* C12: a key-down, key-up or mouse event for input key k leaves the machine
\* of every other key as it was and defers no emission for another key.
C12_KeyEventsAreIsolated ==
  [][ \A k \in InputKeys :
        (KeyDownOn(k) \/ KeyUpOn(k))
          => \A j \in InputKeys \ {k} :
               machines'[j] = machines[j] /\ EmittedFor(j) = {} ]_vars

\* the mouse button goes down while W has a press recorded and its window open
C12_Witness ==
  /\ lastEv = [type |-> "down", key |-> "MIDDLE_CLICK"]
  /\ machines["MIDDLE_CLICK"].keyDownTime = Some(now)
  /\ Len(machines["W"].pressHistory) > 0
  /\ machines["W"].windowDeadline /= None

\* ---- C13
BaseOf(n) ==
  IF n = 1 THEN "single" ELSE IF n = 2 THEN "double"
  ELSE IF n = 3 THEN "triple" ELSE "quadruple"

\* the press type the claim gives to a hold
ClaimedType(hold) ==
  IF settings.longPressMin <= hold /\ hold <= settings.longPressMax THEN "long"
  ELSE IF settings.superLongMin <= hold /\ hold <= settings.superLongMax
    THEN "super_long"
  ELSE "normal"

\* the key-up of a press on k that is recorded: held, below the cancel threshold
RecordingKeyUp(k) ==
  /\ KeyUpOn(k) /\ ~isStopped
  /\ machines[k].keyDownTime /= None
  /\ now - machines[k].keyDownTime[1] < settings.cancelThreshold

\* C13: a press is recorded with the type of its hold (long within
\* [longPressMin, longPressMax], super_long within [superLongMin,
\* superLongMax], normal otherwise), and the gesture emitted for n counted
\* presses, 1 <= n <= 4, is the base of n with the type of the last press.
C13_GestureIsCountAndLastType ==
  [][ \A k \in InputKeys :
        LET H == machines[k].pressHistory
            H2 == machines'[k].pressHistory
        IN  /\ RecordingKeyUp(k) =>
                 LET type == ClaimedType(now - machines[k].keyDownTime[1])
                 IN  \/ /\ EmittedFor(k) = {}
                        /\ H2 /= << >>
                        /\ H2[Len(H2)] = [pressType |-> type, id |-> phys[k].id]
                     \/ /\ H2 = << >>
                        /\ \E e \in EmittedFor(k) :
                             /\ EmittedFor(k) = {e}
                             /\ phys[k].id \in e.ids
                             /\ Cardinality(e.ids) = 4
                             /\ e.gesture = [base |-> "quadruple", type |-> type]
            /\ ~(KeyUpOn(k) \/ KeyDownOn(k)) =>
                 \A e \in EmittedFor(k) :
                   /\ Len(H) \in 1..3
                   /\ e.ids = { H[n].id : n \in DOMAIN H }
                   /\ e.gesture = [base |-> BaseOf(Len(H)),
                                   type |-> H[Len(H)].pressType] ]_vars

\* a double whose first press was long and whose last was normal is
\* delivered as a plain double
C13_Witness ==
  \E e \in gestEv :
    /\ e.gesture = [base |-> "double", type |-> "normal"]
    /\ tapRun[e.inputKey].types = << "long", "normal" >>

\* ---- C14
\* C14: once destroy has returned, no gesture is delivered to the callback
\* or to a listener, not even one resolved before destroy whose deferred
\* emission had not run, and a later key event or tick changes nothing in
\* the detector.
C14_NothingAfterDestroy ==
  /\ [](isStopped => gestEv = {})
  /\ [][ (isStopped /\ lastEv'.type \in {"down", "up", "none"})
           => /\ machines' = machines /\ microtasks' = microtasks
              /\ listeners' = listeners /\ isStopped' ]_vars

\* a deferred emission runs after destroy and delivers nothing
C14_Witness == isStopped /\ lastEv.type = "emit" /\ gestEv = {}

\* ---- C15
\* presses are recorded for k, the last of them press i, the key is released
\* and the window deadline has passed
WindowExpired(k, i) ==
  LET m == machines[k]
  IN  /\ ~isStopped
      /\ m.pressHistory /= << >>
      /\ m.pressHistory[Len(m.pressHistory)].id = i
      /\ m.keyDownTime = None /\ ~m.waitingForRelease
      /\ m.windowDeadline /= None /\ now > m.windowDeadline[1]

\* C15: when presses are recorded for k, the key is released and the window
\* deadline has passed, then unless a further key event arrives for k a
\* gesture that counts these presses is delivered; no pass emits two
\* gestures for one key and no press is counted twice.
C15_ExpiredWindowEmitsOnce ==
  /\ \A k \in InputKeys : \A i \in PressIds :
       WindowExpired(k, i)
         ~> \/ \E e \in gestEv : e.inputKey = k /\ i \in e.ids
            \/ lastEv \in { [type |-> "down", key |-> k],
                            [type |-> "up", key |-> k] }
  /\ [][ \A k \in InputKeys : Cardinality(EmittedFor(k)) <= 1 ]_vars
  /\ [](\A i \in PressIds : counted[i] <= 1)

\* a double is delivered for two recorded presses after their window expired
C15_Witness ==
  \E e \in gestEv :
    /\ e.gesture.base = "double" /\ Cardinality(e.ids) = 2
    /\ lastEv = [type |-> "emit", key |-> e.inputKey]
    /\ machines[e.inputKey].windowDeadline = None

\* ---- C16
RawOf(p) == extractRawKey(party[p].key)
Granted(p) == party[p].pc /= "holding" /\ party'[p].pc = "holding"
Released(p) == party[p].pc \in {"holding", "passed"} /\ party'[p].pc = "idle"

\* C16: crossings for one raw conundrum key are granted in arrival order: when
\* a caller obtains the crossing for a key, no other caller that enqueued
\* earlier for the same key is still waiting.
C16_GrantedInArrivalOrder ==
  [][ \A p \in Parties :
        Granted(p) =>
          \A n \in DOMAIN waitOrder :
            (waitOrder[n] /= p
               /\ RawOf(waitOrder[n]) = extractRawKey(party'[p].key))
              => \E m \in 1..(n - 1) : waitOrder[m] = p ]_vars

\* ---- C17
Holders == { p \in Parties : party[p].pc = "holding" }

\* C17: at most one caller holds a crossing at any time, whatever the keys:
\* between the return of a request for a conundrum key and its release no
\* other request for a conundrum key returns, and the holder's key is the
\* controller's crossingKey.
C17_OneHolderAcrossKeys ==
  /\ Cardinality(Holders) <= 1
  /\ \A p \in Holders : crossingKey = RawOf(p)

\* one caller holds the crossing for R while another, first in the queue of
\* those waiting, waits for Q
C17_Witness ==
  \E p, w \in Parties :
    /\ party[p].pc = "holding" /\ RawOf(p) = "R"
    /\ party[w].pc = "waiting" /\ RawOf(w) = "Q"
    /\ waitOrder[1] = w

\* ---- C18
\* C18: a request for a key whose raw base is not a conundrum key returns at
\* once: the caller does not wait, nothing is enqueued, and the holder and
\* the queue stay as they are, also while another caller holds a crossing.
C18_SafeKeyPassesAtOnce ==
  [][ \A p \in Parties :
        (party[p].pc = "idle" /\ party'[p].pc /= "idle"
           /\ extractRawKey(party'[p].key) \notin trafficProfile.conundrumKeys)
          => /\ party'[p].pc = "passed"
             /\ queue' = queue /\ crossingKey' = crossingKey
             /\ waitOrder' = waitOrder ]_vars

\* a request for J has returned while another caller holds the crossing for
\* R and a third waits
C18_Witness ==
  \E p, h, w \in Parties :
    /\ party[p] = [pc |-> "passed", key |-> K_J, waited |-> FALSE]
    /\ party[h].pc = "holding" /\ party[w].pc = "waiting"

\* ---- C20
\* C20: releaseCrossing only undoes the caller's own acquisition: it clears
\* the holder only when the caller holds the crossing, and it removes a
\* queue entry only when the entry at the head is the caller's own.
C20_ReleaseUndoesOwnAcquisition ==
  [][ \A p \in Parties :
        Released(p) =>
          /\ crossingKey' /= crossingKey => party[p].pc = "holding"
          /\ queue' /= queue => queueBy[1] = p ]_vars

\* ---- C19
\* the run r makes its traffic-control request for a conundrum key
RequestsCrossing(r) ==
  /\ run[r].pc = "traffic" /\ run'[r].pc /= "traffic"
  /\ ~IsTimerStep(CurStep(r)) /\ NeedsTraffic(CurStep(r))

\* C19: a sequence whose binding name has supremacy bypasses the traffic
\* controller: its press of a conundrum key proceeds without waiting, also
\* while another sequence holds a crossing, and the holder and the wait
\* queue stay as they are.
C19_SupremacyBypassesTraffic ==
  [][ \A r \in Runs :
        (RequestsCrossing(r) /\ run[r].binding \in supremacyMacros)
          => /\ run'[r].pc = "keydown"
             /\ queue' = queue /\ crossingKey' = crossingKey ]_vars

\* ---- C21
\* C21: for every profile the compiled conundrumKeys and safeKeys are
\* disjoint, in the main compiler and in the patched Alt+Shift variant.
C21_ConundrumAndSafeDisjoint ==
  /\ compiledMain.conundrumKeys \cap compiledMain.safeKeys = {}
  /\ compiledPatched.conundrumKeys \cap compiledPatched.safeKeys = {}

\* both compilers have returned a conundrum key and a safe key
C21_Witness ==
  /\ compiledMain.done /\ compiledPatched.done
  /\ compiledMain.conundrumKeys /= {} /\ compiledMain.safeKeys /= {}
  /\ compiledPatched.conundrumKeys /= {} /\ compiledPatched.safeKeys /= {}

\* ---- C22
\* the form-set a step key falls in, by its Shift and Alt modifiers
FormOf(key) ==
  IF HasMod(key, "SHIFT") /\ HasMod(key, "ALT") THEN "altShift"
  ELSE IF HasMod(key, "SHIFT") THEN "shift"
  ELSE IF HasMod(key, "ALT") THEN "alt"
  ELSE "bare"

FormSetsOf(base, keys) ==
  { FormOf(key) : key \in { k \in keys : extractRawKey(k) = base } }

BasesUsed(keys) == { extractRawKey(key) : key \in keys }

ConundrumAsSpecified(compiled, keys) ==
  \A base \in BasesUsed(keys) \cup compiled.conundrumKeys :
    LET forms == FormSetsOf(base, keys)
    IN  /\ (Cardinality(forms) >= 2 /\ forms /= {"bare", "altShift"})
             => base \in compiled.conundrumKeys
        /\ Cardinality(forms) <= 1 => base \notin compiled.conundrumKeys

\* C22: a base key is in conundrumKeys exactly when the profile uses it in
\* at least two of the form-sets bare, Shift-only, Alt-only and Alt+Shift
\* (the pair bare and Alt+Shift may go either way); a base used in one
\* form-set only is never a conundrum key.
C22_ConundrumIffTwoFormSets ==
  /\ compiledMain.done => ConundrumAsSpecified(compiledMain, profileKeys)
  /\ compiledPatched.done => ConundrumAsSpecified(compiledPatched, profileKeys)

\* ---- C23
Modifiers == {"SHIFT", "ALT", "CTRL", "CONTROL"}

NoModifier(key) == \A n \in 1..(Len(key) - 1) : ToUpper(key[n]) \notin Modifiers

SafeAsSpecified(compiled, keys) ==
  \A base \in BasesUsed(keys) \cup compiled.safeKeys :
    base \in compiled.safeKeys
      <=> \A key \in keys : extractRawKey(key) = base => NoModifier(key)

\* C23: a base key is in safeKeys exactly when every occurrence of it in the
\* profile carries no modifier at all (Shift, Alt or Control).
C23_SafeIffAlwaysBare ==
  /\ compiledMain.done => SafeAsSpecified(compiledMain, profileKeys)
  /\ compiledPatched.done => SafeAsSpecified(compiledPatched, profileKeys)

\* ---- C24
Enabled(n) == macros[n].enabled
TriggerMatches(n) ==
  macros[n].key = gestureIn.inputKey /\ macros[n].gesture = gestureIn.gesture

\* C24: for a gesture received, executeDetached is invoked on the first
\* binding in profile order that is enabled and whose trigger key and
\* gesture match, and on no other; a disabled binding is never executed,
\* and nothing is executed when no enabled binding matches.
C24_FirstEnabledMatchIsDispatched ==
  LET hits == { n \in DOMAIN macros : Enabled(n) /\ TriggerMatches(n) }
  IN  /\ Len(dispatched) <= 1
      /\ \A i \in DOMAIN dispatched :
           /\ dispatched[i] \in hits
           /\ \A n \in hits : dispatched[i] <= n
      /\ (gestureIn /= NoGestureIn /\ ~agentStopped /\ hits /= {})
           => Len(dispatched) = 1

\* the second of two matching bindings is executed because the first, which
\* matches too, is disabled; a third matching binding is not executed
C24_Witness ==
  /\ Len(macros) = 3 /\ dispatched = << 2 >>
  /\ \A n \in 1..3 : TriggerMatches(n)
  /\ ~Enabled(1) /\ Enabled(2) /\ Enabled(3)

\* ---- C25
\* C25: no recorded press is counted by more than one emitted gesture: once
\* the presses of a sequence on k are resolved, no later finalization pass,
\* key-down or key-up emits a gesture that counts them again.
C25_NoPressCountedTwice ==
  /\ \A i \in PressIds : counted[i] <= 1
  /\ \A k \in InputKeys : \A n \in DOMAIN machines[k].pressHistory :
       counted[machines[k].pressHistory[n].id] = 0

\* a single that counts the second press is delivered after the first press
\* was resolved on its own
C25_Witness ==
  \E e \in gestEv :
    /\ e.ids = {2} /\ counted[1] = 1 /\ counted[2] = 1
    /\ machines[e.inputKey].pressHistory = << >>

\* ---- C26
HistoryIds(m) == { m.pressHistory[n].id : n \in DOMAIN m.pressHistory }

\* the step is the key-up on k of a press held for cancelThreshold or more
CancelHoldUp(k) ==
  /\ KeyUpOn(k)
  /\ machines[k].keyDownTime /= None
  /\ now - machines[k].keyDownTime[1] >= settings.cancelThreshold

\* C26: a press recorded for k does not leave the press history without
\* being counted by a gesture, unless a key-up after a cancel-length hold or
\* destroy discards it; in particular a key-down that arrives after the
\* window deadline and before the next finalization pass does not make the
\* recorded presses disappear.
C26_RecordedPressesReachAGesture ==
  [][ \A k \in InputKeys : \A i \in HistoryIds(machines[k]) :
        i \notin HistoryIds(machines'[k])
          => counted'[i] >= 1 \/ CancelHoldUp(k) \/ isStopped' ]_vars

\* ---- C27
\* C27: a gesture of one, two or three presses is resolved by the periodic
\* finalization pass only, never inside the key-down or key-up handler; a
\* gesture of four presses is resolved inside the handler of the 4th key-up,
\* in the step that records the 4th press.
C27_OnlyQuadrupleResolvesInHandler ==
  [][ /\ \A e \in NewEmissions :
           IF e.gesture.base = "quadruple"
             THEN KeyUpOn(e.inputKey) /\ Cardinality(e.ids) = 4
             ELSE lastEv' = NoEv /\ now' = now
      /\ \A k \in InputKeys :
           (RecordingKeyUp(k) /\ Len(machines[k].pressHistory) = 3
              /\ (machines[k].keyDownWasWithinWindow
                    \/ machines[k].waitingForRelease))
             => \E e \in EmittedFor(k) : e.gesture.base = "quadruple" ]_vars

\* the key-up of the 4th press has deferred a quadruple, after a double on
\* the same key was resolved by the finalization pass
C27_Witness ==
  \E k \in InputKeys :
    /\ lastEv = [type |-> "up", key |-> k]
    /\ \E n \in DOMAIN microtasks :
         /\ microtasks[n].inputKey = k
         /\ microtasks[n].gesture.base = "quadruple"
         /\ microtasks[n].ids = {3, 4, 5, 6}
    /\ counted[1] = 1 /\ counted[2] = 1

\* ---- C28
\* the key-down on k joins the sequence in progress
JoiningKeyDown(k) ==
  /\ KeyDownOn(k)
  /\ machines[k].keyDownTime = None /\ machines'[k].keyDownTime /= None
  /\ machines[k].windowDeadline /= None
  /\ now <= machines[k].windowDeadline[1]

\* C28: a key-down that joins the current sequence extends the window: the
\* deadline in force after it is never earlier than the one in force before.
C28_JoiningKeyDownExtendsWindow ==
  [][ \A k \in InputKeys :
        (JoiningKeyDown(k) /\ machines'[k].windowDeadline /= None)
          => machines'[k].windowDeadline[1] >= machines[k].windowDeadline[1] ]_vars

\* ---- C29
\* C29 as stated: a key-down for a key the user is already holding (an OS
\* key repeat) leaves the machine of the key as it is.
C29_RepeatOfHeldKeyIsIgnored ==
  [][ \A k \in InputKeys :
        (KeyDownOn(k) /\ phys[k].down) => machines'[k] = machines[k] ]_vars

\* ---- C30
\* the machine of k after the event the step has handled, when the event is
\* applied on its own
AppliedAlone(k) ==
  IF lastEv'.type = "down" THEN handleKeyDown(machines[k], now)
  ELSE handleKeyUp(machines[k], now, phys[k].id).m

C31_ThrowingSubscriberIsIsolated ==
  /\ [](\A e \in gestEv :
          /\ e.to = {"callback"} \cup listeners
          /\ ~e.escaped)
  /\ [][ lastEv'.type = "emit" => machines' = machines ]_vars

\* a gesture is emitted to the central callback, which throws, and to a
\* listener
C31_Witness ==
  \E e \in gestEv :
    /\ "callback" \in e.threw
    /\ "L" \in e.to /\ "L" \in listeners

\* ---- C32
\* C32: when the OS sink rejects a key toggle and the tap fallback fails as
\* well, the failure is skipped: the run does not end with an error event;
\* it goes on with the remaining echo hits and steps.
C32_SinkFailureIsSkipped ==
  \A r \in Runs : run[r].result /= "error"

\* ---- C33
\* C33: a sequence releases every crossing it acquires before it terminates,
\* however the step ends; hence whenever no sequence is running the traffic
\* controller has no holder.
C33_NoHolderWhenNothingRuns ==
  (\A r \in Runs : ~InProgress(r)) => crossingKey = ""

\* ---- C35
\* C35: a run that has emitted started emits exactly one terminal event and
\* no step event after it; in particular a run never reports both cancelled
\* and completed.
C35_OneTerminalEventPerRun ==
  /\ [](\A r \in Runs :
          run[r].cancelled => run[r].result \notin {"completed", "error"})
  /\ [][ \A b \in Bindings :
           (\A r \in RunsOf(b) : run[r].cancelled)
             => evCount'[b]["step"] = evCount[b]["step"] ]_vars

\* ---- C36
\* C36: the observability state matches the runs in progress: for every
\* binding, isBindingExecuting is true exactly when a run of it has started
\* and not returned, the name is in getActiveBindings in the same case, and
\* getActiveExecutionCount is the number of such runs.
C36_ObservabilityMatchesRuns ==
  /\ \A b \in Bindings :
       /\ isExecuting[b] <=> RunsOf(b) /= {}
       /\ b \in activeExecutions <=> RunsOf(b) /= {}
  /\ Cardinality(activeExecutions) = Cardinality({ r \in Runs : InProgress(r) })

\* ---- C34
\* C34: with finitely many contenders, each of which releases its crossing
\* after obtaining it, every requestCrossing call eventually returns: no
\* requester waits forever, whether the requesters want the same or
\* different conundrum keys.
C34_EveryRequestReturns ==
  \A p \in Parties : (party[p].pc = "waiting") ~> (party[p].pc = "holding")

\* a caller that had to wait holds the crossing for Q while another caller
\* waits for R, and no further request will be made
C34_Witness ==
  \E p, q \in Parties :
    /\ party[p].pc = "holding" /\ party[p].waited /\ RawOf(p) = "Q"
    /\ party[q].pc = "waiting" /\ RawOf(q) = "R"
    /\ requests = MaxRequests

\* ---- C39
\* the runs that have called requestCrossing for the key of their step and
\* have not yet called releaseCrossing for it
Requesters ==
  { r \in Runs : /\ InProgress(r)
                 /\ run[r].pc \in {"waiting", "granted", "hold", "dualOffset",
                                   "dualHold", "dualTail"}
                 /\ NeedsTraffic(CurStep(r)) }

\* C39: the wait queue holds exactly one entry per requester that is waiting
\* for or holding a crossing (each entry pushed by requestCrossing is removed
\* by one matching releaseCrossing), the holder's key is the key at the head
\* of the queue, and the queue is empty when no crossing is requested or
\* held.
C39_QueueMatchesRequesters ==
  /\ Len(queue) = Cardinality(Requesters)
  /\ crossingKey /= "" => queue /= << >> /\ Head(queue) = crossingKey
  /\ Requesters = {} => queue = << >>

\* ---- C40
\* C40: waitingForRelease is true exactly between an accepted 4th key-down
\* of a sequence and its key-up: whenever it is true the key is held, the
\* press history has exactly 3 records and windowDeadline is null; it is
\* set by the key-down accepted with 3 records in an open window, cleared
\* by the next key-up, and false in every other reachable state.
C40_WaitingForReleaseIsFourthPressHeld ==
  /\ [](\A k \in InputKeys :
          machines[k].waitingForRelease
            => /\ machines[k].keyDownTime /= None
               /\ Len(machines[k].pressHistory) = 3
               /\ machines[k].windowDeadline = None)
  /\ [][ \A k \in InputKeys :
           /\ (~machines[k].waitingForRelease /\ machines'[k].waitingForRelease)
                => /\ JoiningKeyDown(k)
                   /\ Len(machines[k].pressHistory) = 3
           /\ (JoiningKeyDown(k) /\ Len(machines[k].pressHistory) = 3)
                => machines'[k].waitingForRelease
           /\ (machines[k].waitingForRelease /\ KeyUpOn(k))
                => ~machines'[k].waitingForRelease ]_vars

\* the 4th key-down of a sequence has been accepted and the key is held
C40_Witness ==
  \E k \in InputKeys :
    /\ machines[k].waitingForRelease
    /\ lastEv = [type |-> "down", key |-> k]
    /\ Len(tapRun[k].ids) = 4

\* ---- C37
\* the inclusive range the buffer delay of step is to lie in
DelayRange(step) ==
  IF step.bufferTier = "low" THEN 11..17
  ELSE IF step.bufferTier = "medium" THEN 15..24
  ELSE IF step.bufferTier = "high" THEN 980..1270
  ELSE step.minDelay..step.maxDelay

Pressing == {"hold", "dualHold", "dualTail"}

\* the step ends a key press of run r: its last key-up is sent
EndsPress(r) == run[r].pc \in Pressing /\ run'[r].pc \notin Pressing

SendsKeyUp(r) ==
  \E n \in DOMAIN sinkEv' : sinkEv'[n].run = r /\ sinkEv'[n].dir = "up"

\* C38: the key of a step with holdThroughNext stays down across the step
\* boundary and is released only during the buffer window of the next step;
\* it is not released at the end of its own step.
C38_HeldKeyOutlivesItsStep ==
  [][ \A r \in Runs :
        (run[r].pc = "hold" /\ CurStep(r).holdThroughNext) => ~SendsKeyUp(r) ]_vars

====
